---- MODULE Spec2Model ----
(***************************************************************************)
(* A model of the Noema runtime (pinto-team/n3): the kernel-step composer  *)
(* (n3_core/kernel/b0f1_noema_kernel_step.py), the I/O tick                *)
(* (n3_runtime/loop/io_tick.py) and the driver stages the tick runs        *)
(* (n3_core/block_12_orchestration, n3_core/block_13_drivers).             *)
(*                                                                         *)
(* JSON values are tagged records [kind, val]: kind is "str", "int",       *)
(* "bool", "null", "list" or "map"; a map's val is a function from keys    *)
(* to values.  "absent" is the result of looking up a path that is not     *)
(* there.                                                                  *)
(***************************************************************************)
EXTENDS Integers, Sequences, FiniteSets, TLC

VARIABLES
    \* -- _deep_merge applied to one pair of trees --
    dst0,       \* the destination tree before the call
    dst,        \* the destination tree (mutated in place by _deep_merge)
    src,        \* the stage output merged into it
    mpc,        \* "idle" | "in" | "out"
    \* -- b0f1_kernel_step: one run of the composer --
    state,      \* the composer's local `state`
    ran,        \* the composer's local `ran`
    skipped,    \* the composer's local `skipped`
    errors,     \* the composer's local `errors`
    steps,      \* the composer's local `steps` (the order)
    kpc,        \* index into steps of the stage being processed
    kph,        \* "idle" | "call" | "apply" | "done" | "aborted"
    kbeh,       \* what the stage called last did (absent, raise, ret)
    pend,       \* the pair `status, out` that _call returned
    kbad,       \* some stage so far raised or returned a status other than OK/SKIP
    kret,       \* the record b0f1_kernel_step returned
    \* -- b0f1_kernel_step on a heap of dict objects shared by reference --
    heap,       \* address -> dict object
    sroot,      \* address of the composer's `state` (0: not yet built)
    held,       \* addresses the caller and the stages hold references to
    arg,        \* address of the argument of the last stage call
    aout,       \* address of the dict the last stage returned
    apc,        \* "idle" | "loop" | "called" | "done"
    ncalls,     \* stage calls made so far
    nmut,       \* changes stages have made to dicts they hold
    late,       \* a stage changed its argument or its output after it returned
    \* -- run_tick_io over a sequence of ticks --
    ts,         \* the state the caller holds between ticks
    tlog,       \* what each tick so far did
    wall,       \* the wall clock at the latest tick
    \* -- the composer and the tick replayed on one input --
    rin,        \* the input state
    rdrv,       \* the driver stub
    rres,       \* what the composer returned, per invocation
    tres,       \* what the tick returned, per invocation
    rwall,      \* the wall clock at the latest invocation
    \* -- run_tick_io once, with any driver set --
    oin,        \* the state the tick is handed
    odrv,       \* the driver set it is handed
    otr,        \* what the tick did (see TickTrace)
    opc,        \* "idle" | "in" | "out"
    \* -- the drivers of n3_drivers --
    _OUTBOX,    \* http_dev._OUTBOX
    _INDEX,     \* local_runner._INDEX
    kv,         \* the rows of the table kv of the sqlite driver
    fts,        \* the rows of the table fts
    handed,     \* the frames the handlers were handed, in order
    \* -- POST /chat for one thread_id, handled concurrently --
    _STATE_CACHE,   \* the dict _STATE_CACHE[thread_id] refers to (0: no entry)
    session_state,  \* state_json of the thread's row in session_state
    cheap,          \* the state dicts the cache and the handlers refer to
    cstate,         \* the variable state of each handler (0: unset)
    ccopy,          \* the deep copy of the state a handler's tick works on
    cpc,            \* where each handler is in chat()
    \* -- one stage applied to one input --
    fname,          \* the stage applied
    fin,            \* the input_json it is handed
    fout,           \* what it returned (Absent before it did)
    \* -- run_tick_io over a state with an initiative queue --
    ist,    \* the state the caller holds between ticks
    ilog,   \* the ticks run so far: clock and the state before and after
    iwall,  \* the wall clock at the last tick
    \* -- a skill request executed by one tick and an answer emitted by the next --
    est,    \* the state the caller holds
    edrv,   \* the driver set of the two ticks
    eout,   \* the transport outbox
    elog,   \* per tick run: the frames handed to the drivers and the messages added to the outbox
    etext,  \* the text of the answer set after the first tick
    epc,    \* seeded / ran / final / done
    \* -- the policy route --
    pst,    \* the session state the policy route loads and saves
    plog,   \* one record per request: the state before; the changes; the clock; the state after
    pwall,  \* the wall clock (seconds)
    \* -- the learning update --
    lrn,    \* policy.learning of the session state
    llog,   \* one record per update: learning before; the error history and the trace read from it; the uncertainty; the update
    lwall,  \* the wall clock
    \* -- the ticks of one session --
    sst,    \* the state of the session
    slog,   \* per tick of the last ones: what it read and added and what it handed to the drivers
    sclock, \* the last reading of the system's clock
    \* -- the push channel --
    wsent,  \* per subscriber of the push channel: how much of the outbox it has looked at (sent)
    wgot,   \* per subscriber: the texts sent on its socket
    wsaid,  \* per thread: the texts its ticks appended to the outbox
    \* -- the requests of a session under repeated ticks --
    xst,    \* the state the caller of the ticks holds
    xrun,   \* the tick in progress: what run_tick_io computes (NoTrace between ticks)
    xsent,  \* the req_ids the skills driver was handed so far
    \* -- an initiative queue under repeated ticks --
    nst,    \* the state the caller of the ticks holds
    nrun,   \* the tick in progress: what run_tick_io computes (NoTrace between ticks)
    nfired, \* the texts of the say items that became the final turn
    nwall   \* the last reading of the clock

mvars == <<dst0, dst, src, mpc>>
kvars == <<state, ran, skipped, errors, steps, kpc, kph, kbeh, pend, kbad, kret>>
avars == <<heap, sroot, held, arg, aout, apc, ncalls, nmut, late>>
tvars == <<ts, tlog, wall>>
rvars == <<rin, rdrv, rres, tres, rwall>>
ovars == <<oin, odrv, otr, opc>>
dvars == <<_OUTBOX, _INDEX, kv, fts, handed>>
cvars == <<_STATE_CACHE, session_state, cheap, cstate, ccopy, cpc>>
fvars == <<fname, fin, fout>>
ivars == <<ist, ilog, iwall>>
evars == <<est, edrv, eout, elog, etext, epc>>
pvars == <<pst, plog, pwall>>
lvars == <<lrn, llog, lwall>>
svars == <<sst, slog, sclock>>
wvars == <<wsent, wgot, wsaid>>
xvars == <<xst, xrun, xsent>>
nvars == <<nst, nrun, nfired, nwall>>
vars == <<mvars, kvars, avars, tvars, rvars, ovars, dvars, cvars, fvars, ivars, evars, pvars, lvars, svars, wvars, xvars, nvars>>

---------------------------------------------------------------------------
(* JSON values *)

Str(s) == [kind |-> "str", val |-> s]
Lst(s) == [kind |-> "list", val |-> s]
Map(f) == [kind |-> "map", val |-> f]
Null == [kind |-> "null", val |-> ""]
Absent == [kind |-> "absent", val |-> ""]
EmptyMap == Map(<<>>)

IsMap(n) == n.kind = "map"
Keys(n) == IF IsMap(n) THEN DOMAIN n.val ELSE {}

\* every map node over the keys K (any subset of them) with values in V
MapsOver(K, V) == {Map(f) : f \in UNION {[D -> V] : D \in SUBSET K}}

\* o.get(k, default)
GetOr(n, k, default) == IF k \in Keys(n) THEN n.val[k] ELSE default

RECURSIVE Get(_, _)
\* the value at path p of tree n, Absent when the path leaves the tree
Get(n, p) ==
    IF p = <<>> THEN n
    ELSE IF Head(p) \in Keys(n) THEN Get(n.val[Head(p)], Tail(p))
    ELSE Absent

---------------------------------------------------------------------------
(* _deep_merge *)

\* a merge that replaces whole top-level values (dict.update)
_deep_merge_shallow(d, s) ==
    Map([k \in Keys(d) \cup Keys(s) |->
            IF k \in Keys(s) THEN s.val[k] ELSE d.val[k]])

RECURSIVE _deep_merge(_, _)
\* for k, v in src.items(): recurse when both sides are dicts, else dst[k] = deepcopy(v)
_deep_merge(d, s) ==
    Map([k \in Keys(d) \cup Keys(s) |->
            IF k \notin Keys(s) THEN d.val[k]
            ELSE IF IsMap(s.val[k]) /\ k \in Keys(d) /\ IsMap(d.val[k])
                 THEN _deep_merge(d.val[k], s.val[k])
                 ELSE s.val[k]])

\* the trees _deep_merge is tried on: three levels of maps under the keys
\* a, b / c, d / e, with strings and a list as leaves
MergeTrees ==
    LET InnerTrees == MapsOver({"e"}, {Str("x"), Str("y")})
        MidTrees == MapsOver({"c", "d"}, {Str("x"), Lst(<<"x">>)} \cup InnerTrees)
        TopTrees == MapsOver({"a"}, {Str("y")} \cup MidTrees)
    IN {_deep_merge_shallow(t, u) : t \in TopTrees, u \in MapsOver({"b"}, {Str("x"), Str("y")})}

MergeIdle == dst0 = EmptyMap /\ dst = EmptyMap /\ src = EmptyMap /\ mpc = "idle"

InitMerge ==
    /\ dst0 \in MergeTrees
    /\ dst = dst0
    /\ src \in MergeTrees
    /\ mpc = "in"

\* _deep_merge(dst, src): dst is changed in place
Merge ==
    /\ mpc = "in"
    /\ dst' = _deep_merge(dst, src)
    /\ mpc' = "out"
    /\ UNCHANGED <<dst0, src>>

---------------------------------------------------------------------------
(* b0f1_kernel_step *)

RULES_VERSION == "1.0"

\* the longest order the composer is run with
MaxOrder == 3

StageName(i) == <<"s1", "s2", "s3", "s4", "s5", "s6">>[i]

\* Python truthiness of a JSON value (`x or {}`)
Falsy(n) ==
    \/ n.kind = "null"
    \/ n.kind \in {"map", "list"} /\ n.val = <<>>
    \/ n.kind = "str" /\ n.val = ""
    \/ n.kind = "bool" /\ ~n.val
    \/ n.kind = "int" /\ n.val = 0

\* str(x).upper() on the statuses stages return
Upper(n) ==
    IF n.kind = "null" THEN "NONE"
    ELSE CASE n.val = "ok" -> "OK"
           [] n.val = "skip" -> "SKIP"
           [] n.val = "fail" -> "FAIL"
           [] OTHER -> n.val

\* what a registry entry does when the composer gets to it: it is missing
\* from the registry, it raises, or it returns a value
NoStage == [tag |-> "absent", out |-> Null, exc |-> ""]
Raises(e) == [tag |-> "raise", out |-> Null, exc |-> e]
Returns(o) == [tag |-> "ret", out |-> o, exc |-> ""]

\* _call without its try/except: the stage's exception escapes
_call_nocatch(key, beh) ==
    IF beh.tag = "absent"
    THEN [status |-> "SKIP", out |-> EmptyMap, raised |-> FALSE]
    ELSE IF beh.tag = "raise" \/ (~Falsy(beh.out) /\ ~IsMap(beh.out))
    THEN [status |-> "FAIL", out |-> EmptyMap, raised |-> TRUE]
    ELSE LET out == IF Falsy(beh.out) THEN EmptyMap ELSE beh.out
         IN [status |-> Upper(GetOr(out, "status", Str("OK"))), out |-> out,
             raised |-> FALSE]

\* status, out = _call(registry, key, state); `raised` says whether an
\* exception left _call
_call(key, beh) ==
    IF beh.tag = "absent"
    THEN [status |-> "SKIP", out |-> EmptyMap, raised |-> FALSE]
    ELSE IF beh.tag = "raise"
    THEN [status |-> "FAIL",
          out |-> Map("error" :> Str(key \o ": " \o beh.exc)),
          raised |-> FALSE]
    ELSE LET out == IF Falsy(beh.out) THEN EmptyMap ELSE beh.out
         IN IF ~IsMap(out)
            THEN [status |-> "FAIL",
                  out |-> Map("error" :> Str(key \o ": AttributeError")),
                  raised |-> FALSE]
            ELSE [status |-> Upper(GetOr(out, "status", Str("OK"))),
                  out |-> out, raised |-> FALSE]

\* one iteration of `for key in steps` on the accumulators
\* acc = [state, ran, skipped, errors], given what _call returned
KernelLoopBody(acc, key, res) ==
    IF res.status = "FAIL"
    THEN [acc EXCEPT !.errors = Append(@,
              [step |-> key, error |-> GetOr(res.out, "error", Str("unknown"))])]
    ELSE IF res.status = "SKIP"
    THEN [acc EXCEPT !.skipped = Append(@, key)]
    ELSE [acc EXCEPT !.ran = Append(@, key),
                     !.state = _deep_merge(@, res.out)]

\* the value b0f1_kernel_step returns
KernelResult(acc) ==
    [status |-> IF acc.errors = <<>> THEN "OK" ELSE "FAIL",
     noema |-> [kernel |-> [ran |-> acc.ran, skipped |-> acc.skipped,
                            errors |-> acc.errors,
                            rules_version |-> RULES_VERSION]],
     state |-> acc.state]

\* state = copy.deepcopy(input_json or {})
InputState(input_json) == IF Falsy(input_json) THEN EmptyMap ELSE input_json

\* m without the keys in K
Without(m, K) == Map([k \in Keys(m) \ K |-> m.val[k]])

RECURSIVE Covers(_, _)
\* everything tree u holds is in tree t at the same place
Covers(t, u) ==
    \A k \in Keys(u) :
        /\ k \in Keys(t)
        /\ IF IsMap(u.val[k])
           THEN IsMap(t.val[k]) /\ Covers(t.val[k], u.val[k])
           ELSE t.val[k] = u.val[k]

\* m with key k set to v
With(m, k, v) == Map((k :> v) @@ m.val)

\* the statuses a stage puts in its envelope (Absent: no status key)
Statuses == {Absent, Str("OK"), Str("ok"), Str("SKIP"), Str("FAIL"), Str("ERROR")}
\* what a stage returns besides status and diag
Payloads == {EmptyMap, Map("a" :> Str("x")), Map("b" :> Map("c" :> Str("y")))}
Diag == Map("reason" :> Str("r"))

Envelope(st, p) == IF st = Absent THEN p ELSE With(p, "status", st)

\* the values stages return: None, a non-dict, envelopes with and without
\* status, diag and error
StageOutputs ==
    {Null, Lst(<<"x">>)}
    \cup {Envelope(st, p) : st \in Statuses, p \in Payloads}
    \cup {With(Envelope(st, Map("a" :> Str("x"))), "diag", Diag) :
              st \in {Str("OK"), Str("SKIP")}}
    \cup {With(Envelope(Str("FAIL"), EmptyMap), "error", Str("boom"))}

Behaviours == {NoStage, Raises("ValueError: bad")} \cup {Returns(o) : o \in StageOutputs}

\* the stage raised, or returned a status that is neither OK nor SKIP
\* (letter case ignored, a missing status read as OK)
NotOkNorSkip(beh) ==
    \/ beh.tag = "raise"
    \/ beh.tag = "ret" /\ ~Falsy(beh.out) /\ ~IsMap(beh.out)
    \/ beh.tag = "ret" /\ IsMap(beh.out) /\ "status" \in Keys(beh.out)
          /\ Upper(beh.out.val["status"]) \notin {"OK", "SKIP"}

KernelInputs == {Null, Map(("a" :> Str("y")) @@ ("b" :> Map("d" :> Str("x"))))}

NoResult == [status |-> "NONE", state |-> EmptyMap,
             noema |-> [kernel |-> [ran |-> <<>>, skipped |-> <<>>, errors |-> <<>>,
                                    rules_version |-> RULES_VERSION]]]

KernelIdle ==
    /\ state = EmptyMap /\ ran = <<>> /\ skipped = <<>> /\ errors = <<>>
    /\ steps = <<>> /\ kpc = 1 /\ kph = "idle" /\ kbeh = NoStage
    /\ pend = _call("", NoStage) /\ kbad = FALSE /\ kret = NoResult

\* b0f1_kernel_step up to the loop
InitKernel ==
    /\ \E input_json \in KernelInputs : state = InputState(input_json)
    /\ \E n \in 0..MaxOrder : steps = [i \in 1..n |-> StageName(i)]
    /\ ran = <<>> /\ skipped = <<>> /\ errors = <<>>
    /\ kpc = 1 /\ kph = "call" /\ kbeh = NoStage
    /\ pend = _call("", NoStage) /\ kbad = FALSE /\ kret = NoResult

\* status, out = _call(registry, key, state)
KCall ==
    /\ kph = "call" /\ kpc <= Len(steps)
    /\ \E beh \in Behaviours :
          /\ kbeh' = beh
          /\ pend' = _call(steps[kpc], beh)
          /\ kbad' = (kbad \/ NotOkNorSkip(beh))
    /\ kph' = IF pend'.raised THEN "aborted" ELSE "apply"
    /\ UNCHANGED <<state, ran, skipped, errors, steps, kpc, kret>>

\* the rest of the loop body
KApply ==
    /\ kph = "apply"
    /\ LET acc == KernelLoopBody(
                     [state |-> state, ran |-> ran, skipped |-> skipped,
                      errors |-> errors], steps[kpc], pend)
       IN /\ state' = acc.state /\ ran' = acc.ran
          /\ skipped' = acc.skipped /\ errors' = acc.errors
    /\ kpc' = kpc + 1
    /\ kph' = "call"
    /\ UNCHANGED <<steps, kbeh, pend, kbad, kret>>

\* the return statement
KReturn ==
    /\ kph = "call" /\ kpc > Len(steps)
    /\ kret' = KernelResult([state |-> state, ran |-> ran, skipped |-> skipped,
                             errors |-> errors])
    /\ kph' = "done"
    /\ UNCHANGED <<state, ran, skipped, errors, steps, kpc, kbeh, pend, kbad>>

---------------------------------------------------------------------------
(* b0f1_kernel_step with dicts as objects on a heap: what the stages can
   reach of the composer's state.  A dict object is [lvl, f]: lvl 0 for a
   top-level dict, 1 for a dict nested in one; f maps keys to strings or to
   references to nested dicts. *)

\* addresses of dict objects
MaxObjs == 11
\* changes the stages make to the dicts they hold in one run
MaxMutations == 1
\* stage calls in one run of the composer
MaxCalls == 2

TopKeys == {"p", "r"}
SubKeys == {"q"}
Leaves == {Str("x")}

Ref(a) == [kind |-> "ref", val |-> a]
IsRef(c) == c.kind = "ref"
Obj(l, f) == [lvl |-> l, f |-> f]

Free(h) == (1..MaxObjs) \ DOMAIN h
\* the dicts object a refers to
Kids(h, a) == {h[a].f[k].val : k \in {j \in DOMAIN h[a].f : IsRef(h[a].f[j])}}
\* the objects reachable from the addresses R
Reach(h, R) == R \cup UNION {Kids(h, a) : a \in R}
\* objects nothing refers to any more are collected
Collect(h, R) == [a \in Reach(h, R) |-> h[a]]

\* the JSON value of the object at address a
TreeOf(h, a) ==
    Map([k \in DOMAIN h[a].f |->
            IF IsRef(h[a].f[k]) THEN Map(h[h[a].f[k].val].f) ELSE h[a].f[k]])

\* passing the object itself where the code makes a copy
deepcopy_none(h, a) == [heap |-> h, root |-> a]

\* copy.deepcopy(a): fresh objects for a and all it refers to, an object
\* referred to twice copied once
deepcopy(h, a) ==
    LET old == {a} \cup Kids(h, a)
        Rank(x, S) == Cardinality({y \in S : y < x})
        new == [x \in old |-> CHOOSE y \in Free(h) : Rank(y, Free(h)) = Rank(x, old)]
        CopyOf(x) ==
            Obj(h[x].lvl, [k \in DOMAIN h[x].f |->
                              IF IsRef(h[x].f[k]) THEN Ref(new[h[x].f[k].val])
                              ELSE h[x].f[k]])
    IN [heap |-> [y \in DOMAIN h \cup {new[x] : x \in old} |->
                     IF y \in DOMAIN h THEN h[y]
                     ELSE CopyOf(CHOOSE x \in old : new[x] = y)],
        root |-> new[a]]

\* one iteration of _deep_merge's loop: key k of the dict at s into the dict at d
MergeKey(h, d, s, k) ==
    LET v == h[s].f[k]
    IN IF IsRef(v) /\ k \in DOMAIN h[d].f /\ IsRef(h[d].f[k])
       THEN \* _deep_merge(dst[k], v): the nested dicts hold strings only
            LET dk == h[d].f[k].val
            IN [h EXCEPT ![dk].f = [j \in DOMAIN h[dk].f \cup DOMAIN h[v.val].f |->
                                      IF j \in DOMAIN h[v.val].f THEN h[v.val].f[j]
                                      ELSE h[dk].f[j]]]
       ELSE IF IsRef(v)
       THEN LET c == deepcopy(h, v.val)
            IN [c.heap EXCEPT ![d].f = (k :> Ref(c.root)) @@ @]
       ELSE [h EXCEPT ![d].f = (k :> v) @@ @]

RECURSIVE MergeHeap(_, _, _, _)
\* _deep_merge(dst, src) on the heap, the keys of src taken in the order ks
MergeHeap(h, d, s, ks) ==
    IF ks = <<>> THEN h
    ELSE MergeHeap(MergeKey(h, d, s, Head(ks)), d, s, Tail(ks))

\* the orders in which a dict with the keys K can be iterated
Orders(K) == {o \in [1..Cardinality(K) -> K] : \A i, j \in 1..Cardinality(K) : i # j => o[i] # o[j]}

StateTree == TreeOf(heap, sroot)

AliasIdle ==
    /\ heap = <<>> /\ sroot = 0 /\ held = {} /\ arg = 0 /\ aout = 0
    /\ apc = "idle" /\ ncalls = 0 /\ nmut = 0 /\ late = FALSE

\* the composer's state after state = copy.deepcopy(input_json): an empty
\* dict, nested dicts, and a nested dict the input referred to twice
InputHeaps ==
    {(1 :> Obj(0, <<>>)),
     (1 :> Obj(0, "p" :> Ref(2))) @@ (2 :> Obj(1, "q" :> Str("x"))),
     (1 :> Obj(0, ("p" :> Str("x")) @@ ("r" :> Ref(2)))) @@ (2 :> Obj(1, <<>>)),
     (1 :> Obj(0, ("p" :> Ref(2)) @@ ("r" :> Ref(2)))) @@ (2 :> Obj(1, "q" :> Str("x")))}

InitAlias ==
    /\ heap \in InputHeaps /\ sroot = 1 /\ held = {} /\ arg = 0 /\ aout = 0
    /\ apc = "loop" /\ ncalls = 0 /\ nmut = 0 /\ late = FALSE

\* the objects the stages can reach
Theirs == Reach(heap, held)
Nested(h, R) == {x \in Reach(h, R) : h[x].lvl = 1}
LeastFree(h) == CHOOSE x \in Free(h) : \A y \in Free(h) : x <= y

\* a stage (during its call or after it returned) sets or deletes a key of a
\* dict it can reach
AMutate ==
    /\ apc \in {"loop", "called"} /\ nmut < MaxMutations
    /\ \E a \in Theirs :
         \E k \in (IF heap[a].lvl = 0 THEN TopKeys ELSE SubKeys) :
           \E v \in Leaves \cup {Absent}
                     \cup (IF heap[a].lvl = 0 THEN {Ref(c) : c \in Nested(heap, held)}
                           ELSE {}) :
             /\ heap' = Collect(
                   [heap EXCEPT ![a].f =
                       IF v = Absent THEN [j \in DOMAIN @ \ {k} |-> @[j]]
                       ELSE (k :> v) @@ @],
                   held \cup {sroot})
             /\ heap' # heap
             /\ late' = (late \/ apc # "called")
    /\ nmut' = nmut + 1
    /\ UNCHANGED <<sroot, held, arg, aout, apc, ncalls>>

\* out = fn(copy.deepcopy(state)): the stage is handed the copy (what the
\* stage before it held is no longer followed)
ACall ==
    /\ apc = "loop" /\ ncalls < MaxCalls
    /\ LET c == deepcopy(Collect(heap, {sroot}), sroot)
       IN heap' = c.heap /\ arg' = c.root /\ held' = {c.root}
    /\ apc' = "called" /\ ncalls' = ncalls + 1
    /\ UNCHANGED <<sroot, aout, nmut, late>>

\* the dicts a stage can return: its argument, a dict it kept, or a new dict
\* of strings, of nested dicts it can reach and of one new nested dict
StageDicts(h, R) ==
    LET o == LeastFree(h)
        n == LeastFree((o :> Obj(0, <<>>)) @@ h)
    IN {[heap |-> h, root |-> a] : a \in {x \in R : h[x].lvl = 0}}
       \cup {[heap |-> Collect((o :> Obj(0, f)) @@ (n :> Obj(1, g)) @@ h, R \cup {o, sroot}),
              root |-> o] :
                f \in UNION {[D -> Leaves \cup {Ref(c) : c \in Nested(h, R) \cup {n}}] :
                                D \in SUBSET TopKeys},
                g \in UNION {[D -> Leaves] : D \in SUBSET SubKeys}}

\* the stage returns a dict; _deep_merge(state, out)
AReturn ==
    /\ apc = "called"
    /\ \E r \in StageDicts(heap, held) :
         \E ks \in Orders(DOMAIN r.heap[r.root].f) :
           /\ heap' = MergeHeap(r.heap, sroot, r.root, ks)
           /\ aout' = r.root
           /\ held' = held \cup {r.root}
    /\ apc' = "loop"
    /\ UNCHANGED <<sroot, arg, ncalls, nmut, late>>

\* the order is exhausted: the composer returns `state`
AFinish ==
    /\ apc = "loop" /\ ncalls = MaxCalls
    /\ apc' = "done"
    /\ UNCHANGED <<heap, sroot, held, arg, aout, ncalls, nmut, late>>

---------------------------------------------------------------------------
(* the stages the tick runs, on JSON trees.  Requests, messages and storage
   operations keep the fields the driver path reads; texts are short and
   already stripped, so clipping leaves them as they are. *)

Num(n) == [kind |-> "int", val |-> n]
Bool(b) == [kind |-> "bool", val |-> b]
\* sha1 of the canonical JSON of x: a string that determines x
_hash(x) == [kind |-> "sha1", val |-> x]
\* the wall clock rendered as an ISO string
Iso(t) == [kind |-> "iso", val |-> t]

\* x = e; F(x): the value of e is computed once, as an assignment does
Once(e, F(_)) == CHOOSE y \in {F(x) : x \in {e}} : TRUE

\* _get(o, path, default)
_get(o, path, default) == IF Get(o, path) = Absent THEN default ELSE Get(o, path)
\* x or d
Or(x, d) == IF x = Absent \/ Falsy(x) THEN d ELSE x
\* [x for x in (lst or []) if isinstance(x, dict)][:n]
_cap_list(lst, n) ==
    LET s == IF lst.kind = "list" THEN SelectSeq(lst.val, IsMap) ELSE <<>>
    IN SubSeq(s, 1, IF Len(s) < n THEN Len(s) ELSE n)
\* a.get(k, d) read as an int (the models' numbers are ints)
IntOf(a, k, d) == IF GetOr(a, k, Absent).kind = "int" THEN a.val[k].val ELSE d
Clamp(lo, x, hi) == IF x < lo THEN lo ELSE IF x > hi THEN hi ELSE x

RECURSIVE Flatten(_)
\* the concatenation of a sequence of sequences (list.extend in a loop)
Flatten(ss) == IF ss = <<>> THEN <<>> ELSE Head(ss) \o Flatten(Tail(ss))

Meta(source) == Map(("source" :> Str(source)) @@ ("rules_version" :> Str(RULES_VERSION)))
\* the envelope {status, <keys>, diag: {reason}}
Env(status, body, reason) ==
    Map(("status" :> Str(status)) @@ ("diag" :> Map("reason" :> Str(reason))) @@ body.val)
\* the same with diag: {reason, counts}
EnvCounts(status, body, reason, counts) ==
    Map(("status" :> Str(status)) @@ body.val
        @@ ("diag" :> Map(("reason" :> Str(reason))
                          @@ ("counts" :> Map([k \in DOMAIN counts |-> Num(counts[k])])))))

\* B12F2: engine.actions -> driver.plan
b12f2_envelope_actions(input_json) ==
    LET MAX_EMITS == 4
        MAX_REQS == 24
        MAX_APPLY == 5000
        MAX_INDEX == 2000
        actions == _get(input_json, <<"engine", "actions">>, Lst(<<>>))
        acts == IF actions.kind = "list"
                THEN SubSeq(actions.val, 1, IF Len(actions.val) < MAX_EMITS + MAX_REQS + 10
                                            THEN Len(actions.val) ELSE MAX_EMITS + MAX_REQS + 10)
                ELSE <<>>
        OfType(t) == SelectSeq(acts, LAMBDA a : IsMap(a) /\ GetOr(a, "type", Null) = Str(t))
        \* _env_emit
        Move(a) == IF GetOr(a, "move", Null).kind = "str" THEN a.val["move"] ELSE Str("answer")
        Text(a) == IF GetOr(a, "text", Null).kind = "str" THEN a.val["text"] ELSE Str("")
        emits == SelectSeq(OfType("emit"), LAMBDA a : Text(a) # Str(""))
        outbound == [i \in 1..(IF Len(emits) < MAX_EMITS THEN Len(emits) ELSE MAX_EMITS) |->
                        Map(("role" :> Str("assistant")) @@ ("move" :> Move(emits[i]))
                            @@ ("text" :> Text(emits[i]))
                            @@ ("id" :> _hash(Map(("move" :> Move(emits[i])) @@ ("text" :> Text(emits[i]))))))]
        \* _env_execute
        Reqs(a) == LET rs == _cap_list(GetOr(a, "requests", Lst(<<>>)), MAX_REQS)
                   IN [i \in 1..Len(rs) |->
                          IF "req_id" \in Keys(rs[i]) THEN rs[i]
                          ELSE With(rs[i], "req_id", _hash(rs[i]))]
        execs == SelectSeq(OfType("execute"), LAMBDA a : Reqs(a) # <<>>)
        limits == IF IsMap(GetOr(execs[1], "limits", Null)) THEN execs[1].val["limits"] ELSE EmptyMap
        skills == Map(("batch" :> Lst(Flatten([i \in 1..Len(execs) |-> Reqs(execs[i])])))
                      @@ ("limits" :> Map(("timeout_ms" :> Num(IntOf(limits, "timeout_ms", 30000)))
                                          @@ ("max_inflight" :> Num(IntOf(limits, "max_inflight", 4)))))
                      @@ ("defer" :> Lst(Flatten([i \in 1..Len(execs) |->
                                                    GetOr(execs[i], "defer", Lst(<<>>)).val]))))
        \* _env_persist
        Ops(a) == _cap_list(GetOr(a, "apply_ops", Lst(<<>>)), MAX_APPLY)
        Items(a) == _cap_list(GetOr(a, "index_items", Lst(<<>>)), MAX_INDEX)
        persists == SelectSeq(OfType("persist"), LAMBDA a : Ops(a) # <<>> \/ Items(a) # <<>>)
        ns == Or(Get(input_json, <<"storage", "apply", "namespace">>), Str("store/noema/default"))
        ops == Flatten([i \in 1..Len(persists) |-> Ops(persists[i])])
        queue == Flatten([i \in 1..Len(persists) |-> Items(persists[i])])
        storage == Map(("apply" :> Map(("namespace" :> ns)
                                       @@ ("ops" :> Lst(SubSeq(ops, 1, IF Len(ops) < MAX_APPLY
                                                                       THEN Len(ops) ELSE MAX_APPLY)))))
                       @@ ("index" :> Map("queue" :> Lst(SubSeq(queue, 1, IF Len(queue) < MAX_INDEX
                                                                    THEN Len(queue) ELSE MAX_INDEX)))))
        \* _env_delay
        delays == SelectSeq(OfType("delay"), LAMBDA a : IntOf(a, "ms", 0) > 0)
        timers == [i \in 1..Len(delays) |->
                      Map(("ms" :> Num(IntOf(delays[i], "ms", 0)))
                          @@ ("reason" :> Str("throttle_or_backoff")))]
        plan == (IF outbound # <<>>
                 THEN "transport" :> Map(("outbound" :> Lst(outbound))
                                         @@ ("meta" :> Map("channel" :> Str("default"))))
                 ELSE <<>>)
                @@ (IF execs # <<>> THEN "skills" :> skills ELSE <<>>)
                @@ (IF persists # <<>> THEN "storage" :> storage ELSE <<>>)
                @@ (IF timers # <<>> THEN "timers" :> Lst(timers) ELSE <<>>)
                @@ ("meta" :> Meta("B12F2"))
    IN IF acts = <<>>
       THEN EnvCounts("SKIP", Map("driver" :> Map("plan" :> Map("meta" :> Meta("B12F2")))),
                      "no_actions", [emit |-> 0, execute |-> 0, persist |-> 0, delay |-> 0])
       ELSE EnvCounts("OK", Map("driver" :> Map("plan" :> Map(plan))), "ok",
                      [emit |-> Len(outbound), execute |-> Len(execs),
                       persist |-> Len(persists), delay |-> Len(delays)])

\* B12F3: driver.plan -> driver.jobs, in the order transport, skills,
\* storage, timer
b12f3_build_jobs(input_json) ==
    LET MAX_EMIT == 8
        MAX_REQS == 32
        MAX_APPLY == 6000
        MAX_INDEX == 3000
        DEFAULT_TIMEOUT == 30000
        plan == _get(input_json, <<"driver", "plan">>, EmptyMap)
        ns == "noema/" \o Or(Get(input_json, <<"session", "thread_id">>), Str("default")).val
        _deadline_ms(t, pad) == Clamp(2000, t + pad, 120000)
        WithId(job, t) ==
            With(job, "job_id", _hash(Map(("k" :> job.val["idempotency_key"]) @@ ("t" :> Str(t)))))
        \* _job_transport
        out == _cap_list(_get(plan, <<"transport", "outbound">>, Lst(<<>>)), MAX_EMIT)
        _job_transport ==
            IF out = <<>> THEN <<>>
            ELSE <<WithId(Map(("type" :> Str("transport.emit")) @@ ("items" :> Lst(out))
                              @@ ("idempotency_key" :> _hash(Map(("ns" :> Str(ns)) @@ ("type" :> Str("emit"))
                                                            @@ ("items" :> Lst(out)))))
                              @@ ("deadline_ms" :> Num(_deadline_ms(8000, 1000)))), "emit")>>
        \* _job_skills
        sk == IF IsMap(GetOr(plan, "skills", Null)) THEN plan.val["skills"] ELSE EmptyMap
        batch == _cap_list(GetOr(sk, "batch", Lst(<<>>)), MAX_REQS)
        limits == IF IsMap(GetOr(sk, "limits", Null)) THEN sk.val["limits"] ELSE EmptyMap
        lim == Map(("timeout_ms" :> Num(IntOf(limits, "timeout_ms", DEFAULT_TIMEOUT)))
                   @@ ("max_inflight" :> Num(IntOf(limits, "max_inflight", 4))))
        _job_skills ==
            IF batch = <<>> THEN <<>>
            ELSE <<WithId(Map(("type" :> Str("skills.execute")) @@ ("batch" :> Lst(batch))
                              @@ ("limits" :> lim)
                              @@ ("defer" :> Or(GetOr(sk, "defer", Absent), Lst(<<>>)))
                              @@ ("idempotency_key" :> _hash(Map(("ns" :> Str(ns)) @@ ("type" :> Str("skills"))
                                                            @@ ("batch" :> Lst(batch)) @@ ("limits" :> lim))))
                              @@ ("deadline_ms" :>
                                    Num(_deadline_ms(IntOf(limits, "timeout_ms", DEFAULT_TIMEOUT), 3000)))),
                          "skills")>>
        \* _job_storage
        st == IF IsMap(GetOr(plan, "storage", Null)) THEN plan.val["storage"] ELSE EmptyMap
        apply_ns == Or(Get(st, <<"apply", "namespace">>), Str("store/" \o ns))
        apply_ops == _cap_list(_get(st, <<"apply", "ops">>, Lst(<<>>)), MAX_APPLY)
        index_q == _cap_list(_get(st, <<"index", "queue">>, Lst(<<>>)), MAX_INDEX)
        _job_storage ==
            IF apply_ops = <<>> /\ index_q = <<>> THEN <<>>
            ELSE <<WithId(Map(("type" :> Str("storage.apply_index")) @@ ("namespace" :> apply_ns)
                              @@ ("apply_ops" :> Lst(apply_ops)) @@ ("index_queue" :> Lst(index_q))
                              @@ ("idempotency_key" :> _hash(Map(("ns" :> apply_ns) @@ ("apply_ops" :> Lst(apply_ops))
                                                            @@ ("idx" :> Lst(index_q)))))
                              @@ ("deadline_ms" :> Num(_deadline_ms(10000, 2000)))), "storage")>>
        \* _job_timers
        timers == SelectSeq(_get(plan, <<"timers">>, Lst(<<>>)).val,
                            LAMBDA t : IsMap(t) /\ IntOf(t, "ms", 0) > 0)
        ms == CHOOSE m \in {IntOf(timers[i], "ms", 0) : i \in 1..Len(timers)} :
                 \A i \in 1..Len(timers) : m <= IntOf(timers[i], "ms", 0)
        _job_timers ==
            IF timers = <<>> THEN <<>>
            ELSE <<WithId(Map(("type" :> Str("timer.sleep")) @@ ("ms" :> Num(ms))
                              @@ ("idempotency_key" :> _hash(Map(("ns" :> Str(ns)) @@ ("sleep_ms" :> Num(ms)))))
                              @@ ("deadline_ms" :> Num(IF ms + 2000 < 60000 THEN ms + 2000 ELSE 60000))),
                          "timer")>>
        jobs == _job_transport \o _job_skills \o _job_storage \o _job_timers
    IN IF ~IsMap(plan) \/ plan = EmptyMap
       THEN EnvCounts("SKIP", Map("driver" :> Map(("jobs" :> Lst(<<>>))
                                                  @@ ("meta" :> Meta("B12F3")))),
                      "no_plan", [jobs |-> 0])
       ELSE EnvCounts("OK", Map("driver" :> Map(("jobs" :> Lst(jobs))
                                                @@ ("meta" :> Meta("B12F3")))),
                      "ok", [jobs |-> Len(jobs)])

\* B13F1: driver.jobs -> driver.protocol.frames, one frame per job
b13f1_build_protocol(input_json) ==
    LET MAX_EMIT == 8
        MAX_REQS == 32
        MAX_APPLY == 6000
        MAX_INDEX == 3000
        jobs == _get(input_json, <<"driver", "jobs">>, Lst(<<>>))
        endpoints == Or(Get(input_json, <<"endpoints">>), EmptyMap)
        Tail3(job, d) ==
            ("deadline_ms" :> Num(IntOf(job, "deadline_ms", d)))
            @@ ("idempotency_key" :> GetOr(job, "idempotency_key", Null))
            @@ ("meta" :> Map("job_id" :> GetOr(job, "job_id", Null)))
        \* _frame_transport
        _frame_transport(job) ==
            LET outbound == _cap_list(GetOr(job, "items", Lst(<<>>)), MAX_EMIT)
            IN IF GetOr(job, "type", Null) # Str("transport.emit") \/ outbound = <<>> THEN <<>>
               ELSE <<Map(("type" :> Str("transport"))
                          @@ ("channel" :> _get(endpoints, <<"transport", "channel">>, Str("default")))
                          @@ ("messages" :> Lst(outbound)) @@ Tail3(job, 8000))>>
        \* _frame_skills
        _frame_skills(job) ==
            LET batch == _cap_list(GetOr(job, "batch", Lst(<<>>)), MAX_REQS)
                timeout_ms == Num(IF Get(job, <<"limits", "timeout_ms">>).kind = "int"
                                  THEN Get(job, <<"limits", "timeout_ms">>).val ELSE 30000)
                sid(r) == IF GetOr(r, "skill_id", Null).kind = "str" THEN r.val["skill_id"] ELSE Str("")
                Call(r) ==
                    Map(("req_id" :> GetOr(r, "req_id", Null)) @@ ("skill_id" :> sid(r))
                        @@ ("endpoint" :>
                              _get(endpoints, <<"skills", sid(r).val, "endpoint">>,
                                   _get(endpoints, <<"skills", "default", "endpoint">>,
                                        Str("skills://default"))))
                        @@ ("params" :> IF IsMap(GetOr(r, "params", Null)) THEN r.val["params"]
                                        ELSE EmptyMap)
                        @@ ("timeout_ms" :> timeout_ms)
                        @@ ("idempotency_key" :> GetOr(r, "idempotency_key", Null)))
            IN IF GetOr(job, "type", Null) # Str("skills.execute") \/ batch = <<>> THEN <<>>
               ELSE <<Map(("type" :> Str("skills"))
                          @@ ("calls" :> Lst([i \in 1..Len(batch) |-> Call(batch[i])]))
                          @@ ("limits" :> Map(("timeout_ms" :> timeout_ms)
                                @@ ("max_inflight" :>
                                      Num(IF Get(job, <<"limits", "max_inflight">>).kind = "int"
                                          THEN Get(job, <<"limits", "max_inflight">>).val ELSE 4))))
                          @@ ("defer" :> Or(GetOr(job, "defer", Absent), Lst(<<>>)))
                          @@ Tail3(job, 35000))>>
        \* _frame_storage
        _frame_storage(job) ==
            LET apply_ops == _cap_list(GetOr(job, "apply_ops", Lst(<<>>)), MAX_APPLY)
                index_q == _cap_list(GetOr(job, "index_queue", Lst(<<>>)), MAX_INDEX)
            IN IF GetOr(job, "type", Null) # Str("storage.apply_index")
                  \/ (apply_ops = <<>> /\ index_q = <<>>) THEN <<>>
               ELSE <<Map(("type" :> Str("storage"))
                          @@ ("namespace" :> Or(GetOr(job, "namespace", Absent),
                                                Str("store/noema/default")))
                          @@ ("apply" :> Lst(apply_ops)) @@ ("index" :> Lst(index_q))
                          @@ Tail3(job, 12000))>>
        \* _frame_timer
        _frame_timer(job) ==
            LET ms == IntOf(job, "ms", 0)
            IN IF GetOr(job, "type", Null) # Str("timer.sleep") \/ ms <= 0 THEN <<>>
               ELSE <<Map(("type" :> Str("timer")) @@ ("sleep_ms" :> Num(ms))
                          @@ Tail3(job, ms + 2000))>>
        js == SelectSeq(jobs.val, IsMap)
        frames == Flatten([i \in 1..Len(js) |->
                     _frame_transport(js[i]) \o _frame_skills(js[i])
                     \o _frame_storage(js[i]) \o _frame_timer(js[i])])
    IN IF jobs.kind # "list" \/ jobs.val = <<>>
       THEN EnvCounts("SKIP", Map("driver" :> Map("protocol" :>
                         Map(("frames" :> Lst(<<>>)) @@ ("meta" :> Meta("B13F1"))))),
                      "no_jobs", [frames |-> 0])
       ELSE EnvCounts("OK", Map("driver" :> Map("protocol" :>
                         Map(("frames" :> Lst(frames)) @@ ("meta" :> Meta("B13F1"))))),
                      "ok", [frames |-> Len(frames)])

\* B13F2: driver.replies -> executor.results, transport.outbound, storage.*,
\* timers.sleep; per subsystem the last reply wins (out.update in a loop)
b13f2_normalize_driver_replies(input_json) ==
    LET reps == _get(input_json, <<"driver", "replies">>, Lst(<<>>))
        _bool(x) == IF x.kind = "bool" THEN x ELSE Bool(FALSE)
        Dicts(l) == IF l.kind = "list" THEN SelectSeq(l.val, IsMap) ELSE <<>>
        FirstOf(rep, p1, p2) ==
            IF ~Falsy(_get(rep, p1, Lst(<<>>))) THEN Get(rep, p1) ELSE Or(Get(rep, p2), Lst(<<>>))
        \* _norm_transport
        _norm_transport(rep) ==
            LET delivered == Dicts(FirstOf(rep, <<"messages">>, <<"payload", "messages">>))
                ids == SelectSeq([i \in 1..Len(delivered) |-> GetOr(delivered[i], "id", Null)],
                                 LAMBDA v : v.kind \in {"str", "sha1"})
            IN Map("outbound" :> Map(("delivered" :> Num(Len(delivered))) @@ ("ids" :> Lst(ids))
                       @@ ("channel" :> GetOr(rep, "channel", Str("default")))
                       @@ ("ok" :> _bool(GetOr(rep, "ok", Bool(TRUE))))))
        \* _norm_skills
        _norm_skills(rep) ==
            LET calls == Dicts(FirstOf(rep, <<"calls">>, <<"results">>))
                Item(c) ==
                    Map(("ok" :> _bool(GetOr(c, "ok", Bool(TRUE))))
                        @@ ("kind" :> Or(GetOr(c, "kind", Absent),
                                         IF GetOr(c, "data", Null).kind \in {"map", "list"}
                                         THEN Str("json") ELSE Str("text")))
                        @@ ("text" :> IF GetOr(c, "text", Null).kind = "str" THEN c.val["text"]
                                      ELSE Str(""))
                        @@ ("data" :> IF GetOr(c, "data", Null).kind \in {"map", "list"}
                                      THEN c.val["data"] ELSE Null)
                        @@ ("attachments" :> IF GetOr(c, "attachments", Null).kind = "list"
                                             THEN c.val["attachments"] ELSE Lst(<<>>))
                        @@ ("usage" :> IF IsMap(GetOr(c, "usage", Null)) THEN c.val["usage"]
                                       ELSE EmptyMap)
                        @@ ("duration_ms" :> Num(IntOf(c, "latency_ms", IntOf(c, "duration_ms", 0))))
                        @@ ("score" :> Num(IntOf(c, "score", 0)))
                        @@ ("req_id" :> GetOr(c, "req_id", Null)))
                items == [i \in 1..Len(calls) |-> Item(calls[i])]
                ok_n == Cardinality({i \in 1..Len(items) : items[i].val["ok"] = Bool(TRUE)})
                lat == [i \in 1..Len(items) |-> items[i].val["duration_ms"].val]
                Sum[i \in 0..Len(items)] == IF i = 0 THEN 0 ELSE Sum[i - 1] + lat[i]
            IN Map("results" :> Map(("items" :> Lst(items))
                       @@ ("aggregate" :> Map(("count" :> Num(Len(items))) @@ ("ok" :> Num(ok_n))
                             @@ ("errors" :> Num(Len(items) - ok_n))
                             @@ ("avg_latency_ms" :>
                                   Num(IF items = <<>> THEN 0 ELSE Sum[Len(items)] \div Len(items)))
                             @@ ("total_cost" :> Num(0))))
                       @@ ("best" :> IF items = <<>> THEN EmptyMap ELSE items[1])))
        \* _norm_storage
        _norm_storage(rep) ==
            Map(("apply_result" :> Map(("ok" :> _bool(GetOr(rep, "ok", Bool(TRUE))))
                     @@ ("ops" :> Num(Len(Dicts(FirstOf(rep, <<"apply", "ops">>, <<"apply_ops">>)))))))
                @@ ("index_result" :> Map(("ok" :> Bool(TRUE))
                     @@ ("items" :>
                           Num(Len(Dicts(FirstOf(rep, <<"index", "queue">>, <<"index_queue">>))))))))
        \* _norm_timer
        _norm_timer(rep) ==
            Map("sleep" :> Map(("ms" :> Num(IntOf(rep, "sleep_ms",
                                     IF Get(rep, <<"payload", "ms">>).kind = "int"
                                     THEN Get(rep, <<"payload", "ms">>).val ELSE 0)))
                               @@ ("ok" :> _bool(GetOr(rep, "ok", Bool(TRUE))))))
        rs == Dicts(reps)
        OfType(t) == SelectSeq(rs, LAMBDA r : GetOr(r, "type", Null) = Str(t))
        Last(s) == s[Len(s)]
        Part(t, key, norm(_)) == IF OfType(t) = <<>> THEN <<>> ELSE key :> norm(Last(OfType(t)))
    IN IF reps.kind # "list" \/ reps.val = <<>>
       THEN Env("SKIP", EmptyMap, "no_replies")
       ELSE Env("OK", Map(Part("transport", "transport", _norm_transport)
                          @@ Part("skills", "executor", _norm_skills)
                          @@ Part("storage", "storage", _norm_storage)
                          @@ Part("timer", "timers", _norm_timer)), "ok")

\* the retry policy defaults; factor is kept in tenths (1.7 is 17)
DEFAULTS ==
    [skills |-> [max_attempts |-> 3, backoff_ms |-> 400, factor |-> 17, jitter_ms |-> 120],
     transport |-> [max_attempts |-> 2, backoff_ms |-> 200, factor |-> 15, jitter_ms |-> 80],
     storage |-> [max_attempts |-> 2, backoff_ms |-> 300, factor |-> 16, jitter_ms |-> 100],
     timer |-> [max_attempts |-> 0, backoff_ms |-> 0, factor |-> 10, jitter_ms |-> 0]]

\* driver.history.attempts as a function from job ids to counts
_attempts_map(inp) ==
    LET hist == Or(Get(inp, <<"driver", "history", "attempts">>), EmptyMap)
    IN [k \in {j \in Keys(hist) : hist.val[j].kind = "int"} |-> hist.val[k].val]

\* a retry job with a key of its own, derived from the job it retries
_retry_key_fresh(last) == _hash(last)

\* "idempotency_key": last.get("idempotency_key") of a retry job
_retry_key(last) == GetOr(last, "idempotency_key", Null)

\* B13F3: the retry plan for the failures B13F2 left in the state
b13f3_plan_retry(input_json) ==
    LET MAX_REQS == 32
        MAX_APPLY == 6000
        MAX_INDEX == 3000
        MAX_EMIT == 8
        jobs == Or(Get(input_json, <<"driver", "jobs">>), Lst(<<>>))
        attempts == _attempts_map(input_json)
        pol_all == Or(Get(input_json, <<"policy">>), EmptyMap)
        \* _policy_for
        _policy_for(kind) ==
            LET p == Or(Get(pol_all, <<"retry", kind>>), EmptyMap)
            IN [k \in DOMAIN DEFAULTS[kind] |-> IntOf(p, k, DEFAULTS[kind][k])]
        \* _next_backoff_ms in thousandths; the digest of the salt is not
        \* computed, 0 stands for it
        Raw(base, factor, n) ==
            LET F[i \in 0..n] == IF i = 0 THEN base * 1000 ELSE (F[i - 1] * factor) \div 10
            IN F[n] \div 1000
        _hash_to_int(salt) == 0
        _next_backoff_ms(pol, done, salt) ==
            LET jitter_val == IF pol.jitter_ms <= 0 THEN 0
                              ELSE _hash_to_int(salt) % pol.jitter_ms
            IN Clamp(0, Raw(pol.backoff_ms, pol.factor, IF done < 0 THEN 0 ELSE done) + jitter_val,
                     120000)
        _as_bool(x, default) == IF x.kind = "bool" THEN x.val ELSE default
        \* _failed_skill_req_ids, _transport_failed, _storage_failed
        items == SelectSeq(Or(Get(input_json, <<"executor", "results", "items">>), Lst(<<>>)).val,
                           IsMap)
        failed_req_ids ==
            {items[i].val["req_id"] : i \in {j \in 1..Len(items) :
                /\ ~_as_bool(GetOr(items[j], "ok", Null), TRUE)
                /\ GetOr(items[j], "req_id", Null).kind \in {"str", "sha1"}}}
        tr_failed == ~_as_bool(_get(input_json, <<"transport", "outbound", "ok">>, Bool(TRUE)), TRUE)
        ap_failed ==
            ~_as_bool(_get(input_json, <<"storage", "apply_result", "ok">>, Bool(TRUE)), TRUE)
        ix_failed ==
            ~_as_bool(_get(input_json, <<"storage", "index_result", "ok">>, Bool(TRUE)), TRUE)
        \* the last job of a type, its id and the attempts recorded for it
        OfType(t) == SelectSeq(jobs.val, LAMBDA j : GetOr(j, "type", Null) = Str(t))
        LastJob(t) == OfType(t)[Len(OfType(t))]
        Jid(t, d) == GetOr(LastJob(t), "job_id", Str(d))
        Done(t, d) == IF Jid(t, d) \in DOMAIN attempts THEN attempts[Jid(t, d)] ELSE 0
        Common(last, dl) ==
            ("idempotency_key" :> _retry_key(last))
            @@ ("deadline_ms" :> Num(IntOf(last, "deadline_ms", dl)))
        \* _plan_skills_retry
        to_retry ==
            SelectSeq(_cap_list(GetOr(LastJob("skills.execute"), "batch", Null), MAX_REQS),
                      LAMBDA r : GetOr(r, "req_id", Null) \in failed_req_ids)
        sk_job ==
            IF \/ OfType("skills.execute") = <<>> \/ failed_req_ids = {}
               \/ to_retry = <<>>
               \/ Done("skills.execute", "skills") >= _policy_for("skills").max_attempts
            THEN <<>>
            ELSE LET last == LastJob("skills.execute")
                 IN <<Map(("type" :> Str("skills.execute")) @@ ("batch" :> Lst(to_retry))
                          @@ ("limits" :> Map(("timeout_ms" :>
                                  _get(last, <<"limits", "timeout_ms">>, Num(30000)))
                                @@ ("max_inflight" :>
                                  _get(last, <<"limits", "max_inflight">>, Num(4)))))
                          @@ ("defer" :> Or(Get(last, <<"defer">>), Lst(<<>>)))
                          @@ Common(last, 35000))>>
        \* _plan_transport_retry
        tr_job ==
            IF \/ ~tr_failed \/ OfType("transport.emit") = <<>>
               \/ _cap_list(GetOr(LastJob("transport.emit"), "items", Null), MAX_EMIT) = <<>>
               \/ Done("transport.emit", "transport") >= _policy_for("transport").max_attempts
            THEN <<>>
            ELSE LET last == LastJob("transport.emit")
                 IN <<Map(("type" :> Str("transport.emit"))
                          @@ ("items" :> Lst(_cap_list(GetOr(last, "items", Null), MAX_EMIT)))
                          @@ Common(last, 8000))>>
        \* _plan_storage_retry
        st_job ==
            IF ~(ap_failed \/ ix_failed) \/ OfType("storage.apply_index") = <<>> THEN <<>>
            ELSE LET last == LastJob("storage.apply_index")
                     apply_ops == IF ap_failed
                                  THEN _cap_list(GetOr(last, "apply_ops", Null), MAX_APPLY)
                                  ELSE <<>>
                     index_q == IF ix_failed
                                THEN _cap_list(GetOr(last, "index_queue", Null), MAX_INDEX)
                                ELSE <<>>
                 IN IF \/ (apply_ops = <<>> /\ index_q = <<>>)
                       \/ Done("storage.apply_index", "storage")
                            >= _policy_for("storage").max_attempts
                    THEN <<>>
                    ELSE <<Map(("type" :> Str("storage.apply_index"))
                               @@ ("namespace" :> Or(GetOr(last, "namespace", Absent),
                                                     Str("store/noema/default")))
                               @@ ("apply_ops" :> Lst(apply_ops)) @@ ("index_queue" :> Lst(index_q))
                               @@ Common(last, 12000))>>
        \* the retry planned for each type of job (none: the empty sequence)
        Types == {"skills.execute", "transport.emit", "storage.apply_index"}
        Kind == [t \in Types |->
                   IF t = "skills.execute" THEN "skills"
                   ELSE IF t = "transport.emit" THEN "transport" ELSE "storage"]
        RetryOf == [t \in Types |->
                      IF t = "skills.execute" THEN sk_job
                      ELSE IF t = "transport.emit" THEN tr_job ELSE st_job]
        \* attempts_next[jid] = attempts.get(jid, 0) + 1 for the planned retries
        attempts_next(bumped) ==
            Map([j \in DOMAIN attempts \cup bumped |->
                   Num((IF j \in DOMAIN attempts THEN attempts[j] ELSE 0)
                       + (IF j \in bumped THEN 1 ELSE 0))])
        MaxOf(backoffs) == CHOOSE b \in backoffs : \A c \in backoffs : c <= b
        backoff_ms(planned) ==
            MaxOf({_next_backoff_ms(_policy_for(Kind[t]), Done(t, Kind[t]), Jid(t, Kind[t])) :
                      t \in planned})
        Out(status, js, bo, an, reason) ==
            EnvCounts(status, Map("driver" :> Map("retry" :>
                          Map(("jobs" :> Lst(js)) @@ ("backoff_ms" :> Num(bo))
                              @@ ("attempts_next" :> an) @@ ("meta" :> Meta("B13F3"))))),
                      reason, [jobs |-> Len(js)])
    IN IF jobs.kind # "list" \/ jobs.val = <<>>
       THEN Out("SKIP", <<>>, 0, EmptyMap, "nothing_to_retry")
       ELSE Once(RetryOf, LAMBDA plan :
              Once({t \in Types : plan[t] # <<>>}, LAMBDA planned :
                Once(attempts_next({Jid(t, Kind[t]) : t \in planned}), LAMBDA an :
                  IF planned = {}
                  THEN Out("SKIP", <<>>, 0, an, "nothing_to_retry")
                  ELSE Out("OK", plan["skills.execute"] \o plan["transport.emit"]
                                 \o plan["storage.apply_index"],
                           backoff_ms(planned), an, "ok"))))

\* the keys of the runtime configs, in sorted order
ConfigKeys == <<"a", "b">>

RECURSIVE _diff(_, _)
\* the structural diff of two configs: added, changed, removed (sorted)
_diff(old, new) ==
    LET o == IF Falsy(old) THEN EmptyMap ELSE old
        n == IF Falsy(new) THEN EmptyMap ELSE new
        both == Keys(o) \cap Keys(n)
        Sub(k) == _diff(o.val[k], n.val[k])
        BothDicts(k) == IsMap(o.val[k]) /\ IsMap(n.val[k])
        Meaningful(d) == \E b \in {"added", "changed", "removed"} : ~Falsy(d.val[b])
        changed == {k \in both : IF BothDicts(k) THEN Meaningful(Sub(k)) ELSE o.val[k] # n.val[k]}
    IN Map(("added" :> Map([k \in Keys(n) \ Keys(o) |-> n.val[k]]))
           @@ ("changed" :> Map([k \in changed |->
                  IF BothDicts(k) THEN Map("nested" :> Sub(k))
                  ELSE Map(("old" :> o.val[k]) @@ ("new" :> n.val[k]))]))
           @@ ("removed" :> Lst([i \in 1..Cardinality(Keys(o) \ Keys(n)) |->
                  Str(SelectSeq(ConfigKeys, LAMBDA k : k \in Keys(o) \ Keys(n))[i])])))

\* B11F1: policy.apply_stage -> runtime; `now` is what _now_z() reads from
\* the wall clock
b11f1_activate_config(input_json, now) ==
    LET stage == _get(input_json, <<"policy", "apply_stage">>, EmptyMap)
        staged_cfg == Or(Get(stage, <<"doc", "config">>), EmptyMap)
        version == Or(Get(stage, <<"version">>), EmptyMap)
        prev == Or(Get(input_json, <<"policy", "current_runtime">>), EmptyMap)
        runtime ==
            Map(("config" :> staged_cfg)
                @@ ("version" :> Map(("id" :> GetOr(version, "id", Null))
                       @@ ("parent_id" :> GetOr(version, "parent_id", Null))
                       @@ ("activated_at" :> Iso(now))
                       @@ ("source_stage" :> Str("B10F3"))))
                @@ ("diff" :> _diff(IF IsMap(prev) THEN prev ELSE EmptyMap,
                                    IF IsMap(staged_cfg) THEN staged_cfg ELSE EmptyMap))
                @@ ("rollback_token" :> Map(("version_id" :> GetOr(version, "id", Null))
                       @@ ("parent_id" :> GetOr(version, "parent_id", Null))
                       @@ ("sig" :> _hash(Map(("rid" :> GetOr(version, "id", Null))
                                                @@ ("parent" :> GetOr(version, "parent_id", Null)))))))
                @@ ("meta" :> Meta("B11F1")))
    IN IF ~IsMap(stage) \/ stage = EmptyMap
       THEN Env("SKIP", Map("runtime" :> Map("config" :> EmptyMap)), "no_stage")
       ELSE Env("OK", Map("runtime" :> runtime), "ok")

\* an f-string: the template's name and the values formatted into it
Fmt(name, args) == [kind |-> "fmt", val |-> <<name>> \o args]

\* the smaller of two numbers
Least(a, b) == IF a < b THEN a ELSE b

\* the throttle with the larger of the two contributions in place of their
\* sum
_throttle_larger(latency, lat_soft, idx_q, idx_soft) ==
    LET by_latency == IF latency > lat_soft THEN Least(1200, (latency - lat_soft) \div 2) ELSE 0
        extra == Least(600, (idx_q - idx_soft) \div 10)
    IN IF idx_q > idx_soft
       THEN Least(1500, IF by_latency > extra THEN by_latency ELSE extra)
       ELSE by_latency

\* throttle_ms: half the latency's overage, at most 1200, and on top of it
\* a tenth of the index queue's overage, at most 600, together at most 1500
_throttle(latency, lat_soft, idx_q, idx_soft) ==
    LET by_latency == IF latency > lat_soft THEN Least(1200, (latency - lat_soft) \div 2) ELSE 0
    IN IF idx_q > idx_soft
       THEN Least(1500, by_latency + Least(600, (idx_q - idx_soft) \div 10))
       ELSE by_latency

\* B11F2: runtime.config and the observed scores -> runtime.gates.  Scores
\* (uncertainty, SLO, thresholds) are in hundredths; a rollout's bucket is
\* taken as 0 (the digest of the subject is not computed)
b11f2_gatekeeper(input_json) ==
    LET cfg == _get(input_json, <<"runtime", "config">>, EmptyMap)
        _num(v, default) == IF v.kind = "int" THEN v.val ELSE default
        slo_score == _num(Get(input_json, <<"observability", "slo", "score">>), 100)
        metrics == Get(input_json, <<"observability", "telemetry", "metrics">>)
        u_score == _num(Get(input_json, <<"world_model", "uncertainty", "score">>), 0)
        \* _metric_value: the latest metric of that name
        _metric_value(name) ==
            LET ms == IF metrics.kind = "list" THEN metrics.val ELSE <<>>
                hits == {i \in 1..Len(ms) : GetOr(ms[i], "name", Str("")) = Str(name)}
            IN IF hits = {} THEN 0
               ELSE _num(GetOr(ms[CHOOSE i \in hits : \A j \in hits : j <= i], "value", Null), 0)
        latency == _metric_value("exec_avg_latency_ms")
        idx_q == _metric_value("index_queue_items")
        g == Or(Get(cfg, <<"guardrails">>), EmptyMap)
        must_confirm_u == _num(Get(g, <<"must_confirm", "u_threshold">>), 40)
        slo_block == _num(Get(g, <<"block_execute_when", "slo_below">>), 0)
        lat_soft == _num(Get(g, <<"latency_soft_limit_ms">>), 1500)
        idx_soft == _num(Get(g, <<"index_queue_soft_max">>), 1000)
        timeout_ms == _num(Get(cfg, <<"executor", "timeout_ms">>), 30000)
        max_inflight == _num(Get(cfg, <<"executor", "parallelism", "max_inflight">>), 4)
        Min(a, b) == IF a < b THEN a ELSE b
        allow_execute == ~(slo_block > 0 /\ slo_score < slo_block)
        require_confirm == u_score >= must_confirm_u
        throttle_ms == _throttle(latency, lat_soft, idx_q, idx_soft)
        reasons ==
            (IF allow_execute THEN <<>> ELSE <<Fmt("block_execute", <<slo_score, slo_block>>)>>)
            \o (IF latency > lat_soft THEN <<Fmt("throttle_latency", <<latency, lat_soft>>)>>
                ELSE <<>>)
            \o (IF idx_q > idx_soft THEN <<Fmt("throttle_index_queue", <<idx_q, idx_soft>>)>>
                ELSE <<>>)
        \* _eval_flag
        _eval_flag(flag_cfg) ==
            IF flag_cfg.kind = "bool" THEN flag_cfg.val
            ELSE IF ~IsMap(flag_cfg) THEN FALSE
            ELSE LET when == IF IsMap(GetOr(flag_cfg, "when", Null)) THEN flag_cfg.val["when"]
                             ELSE EmptyMap
                     rollout == IntOf(flag_cfg, "rollout", 0)
                 IN /\ GetOr(when, "slo_score_min", Null).kind = "int"
                          => slo_score >= when.val["slo_score_min"].val
                    /\ GetOr(when, "uncertainty_max", Null).kind = "int"
                          => u_score <= when.val["uncertainty_max"].val
                    /\ 0 < Clamp(0, rollout, 100)
        flags_cfg == Or(Get(cfg, <<"features">>), EmptyMap)
        gates ==
            Map(("allow_execute" :> Bool(allow_execute)) @@ ("allow_answer" :> Bool(TRUE))
                @@ ("require_confirm" :> Bool(require_confirm))
                @@ ("throttle_ms" :> Num(IF throttle_ms < 0 THEN 0 ELSE throttle_ms))
                @@ ("limits" :> Map(("timeout_ms" :> Num(timeout_ms))
                                    @@ ("max_inflight" :> Num(max_inflight))))
                @@ ("features" :> Map([k \in Keys(flags_cfg) |->
                                         Bool(_eval_flag(flags_cfg.val[k]))])))
    IN IF ~IsMap(cfg) \/ cfg = EmptyMap
       THEN Env("SKIP", Map("runtime" :> Map("gates" :> EmptyMap)), "no_config")
       ELSE Env("OK", Map("runtime" :> Map(("gates" :> gates) @@ ("reasons" :> Lst(reasons))
                                           @@ ("meta" :> Meta("B11F2")))), "ok")

\* run, defer_ids = _batch_requests(reqs, max_inflight)
_batch_requests(reqs, max_inflight) ==
    LET n == IF max_inflight <= 0 THEN 0
             ELSE IF max_inflight < Len(reqs) THEN max_inflight ELSE Len(reqs)
    IN [run |-> SubSeq(reqs, 1, n),
        defer |-> [i \in 1..(Len(reqs) - n) |-> GetOr(reqs[n + i], "req_id", Str(""))]]

\* action, reasons = _decide_action(gates, has_exec, has_answer)
\* _decide_action with the test for a blocked execute before the one for
\* require_confirm
_decide_action_blocked_first(gates, has_exec, has_answer) ==
    LET On(k, default) == ~Falsy(GetOr(gates, k, Bool(default)))
    IN IF has_exec /\ ~On("allow_execute", TRUE)
       THEN [action |-> "sleep", reasons |-> <<Str("execute_blocked")>>]
       ELSE IF On("require_confirm", FALSE) /\ (has_exec \/ has_answer)
       THEN [action |-> "confirm", reasons |-> <<Str("require_confirm")>>]
       ELSE IF has_exec THEN [action |-> "execute", reasons |-> <<>>]
       ELSE IF has_answer THEN [action |-> "answer", reasons |-> <<>>]
       ELSE [action |-> "noop", reasons |-> <<Str("nothing_to_do")>>]

_decide_action(gates, has_exec, has_answer) ==
    LET reasons == IF GetOr(gates, "reasons", Lst(<<>>)).kind = "list"
                   THEN GetOr(gates, "reasons", Lst(<<>>)).val ELSE <<>>
        On(k, default) == ~Falsy(GetOr(gates, k, Bool(default)))
    IN IF On("require_confirm", FALSE) /\ (has_exec \/ has_answer)
       THEN [action |-> "confirm", reasons |-> Append(reasons, Str("require_confirm"))]
       ELSE IF has_exec /\ ~On("allow_execute", TRUE)
       THEN [action |-> "sleep", reasons |-> Append(reasons, Str("execute_blocked"))]
       ELSE IF has_answer /\ ~On("allow_answer", TRUE)
       THEN [action |-> "sleep", reasons |-> Append(reasons, Str("answer_blocked"))]
       ELSE IF has_exec THEN [action |-> "execute", reasons |-> reasons]
       ELSE IF has_answer THEN [action |-> "answer", reasons |-> reasons]
       ELSE [action |-> "noop", reasons |-> Append(reasons, Str("nothing_to_do"))]

\* B11F3: runtime.gates, executor.requests and dialog.final ->
\* runtime.schedule (the requests of the model are dicts)
b11f3_schedule_runtime(input_json) ==
    LET gates == _get(input_json, <<"runtime", "gates">>, EmptyMap)
        throttle_ms == IntOf(gates, "throttle_ms", 0)
        limits == Or(Get(gates, <<"limits">>), EmptyMap)
        timeout_ms == IntOf(limits, "timeout_ms", 30000)
        max_inflight == IntOf(limits, "max_inflight", 4)
        features == Or(Get(gates, <<"features">>), EmptyMap)
        reqs == Or(Get(input_json, <<"executor", "requests">>), Lst(<<>>))
        has_exec == reqs.kind = "list" /\ reqs.val # <<>>
        final == Or(Get(input_json, <<"dialog", "final">>), EmptyMap)
        has_answer == GetOr(final, "move", Null) \in {Str("answer"), Str("ack"), Str("refuse")}
        answer_text == IF GetOr(final, "text", Null).kind = "str" THEN final.val["text"] ELSE Null
        d == _decide_action(gates, has_exec, has_answer)
        b == _batch_requests(reqs.val, max_inflight)
        routes ==
            CASE d.action = "confirm" ->
                   <<Map(("type" :> Str("confirm")) @@ ("reason" :> Str("require_confirm")))>>
              [] d.action = "execute" ->
                   <<Map(("type" :> Str("execute")) @@ ("run" :> Lst(b.run))
                         @@ ("defer" :> Lst(b.defer))
                         @@ ("limits" :> Map(("timeout_ms" :> Num(timeout_ms))
                                             @@ ("max_inflight" :> Num(max_inflight)))))>>
              [] d.action = "answer" ->
                   <<Map(("type" :> Str("answer"))
                         @@ ("text" :> IF Falsy(answer_text) THEN Null ELSE answer_text))>>
              [] OTHER -> <<>>
        schedule ==
            Map(("action" :> Str(d.action))
                @@ ("delay_ms" :> Num(IF throttle_ms < 0 THEN 0 ELSE throttle_ms))
                @@ ("routes" :> Lst(routes)) @@ ("features" :> features)
                @@ ("meta" :> Meta("B11F3")))
    IN IF ~IsMap(gates) \/ gates = EmptyMap
       THEN EnvCounts("SKIP", Map("runtime" :> Map("schedule" :> EmptyMap)), "no_gates",
                      [requests_total |-> 0, run |-> 0, defer |-> 0])
       ELSE EnvCounts("OK", Map("runtime" :> Map(("schedule" :> schedule)
                                                 @@ ("reasons" :> Lst(d.reasons)))), "ok",
                      [requests_total |-> IF reqs.kind = "list" THEN Len(reqs.val) ELSE 0,
                       run |-> IF d.action = "execute" THEN Len(b.run) ELSE 0,
                       defer |-> IF d.action = "execute" THEN Len(b.defer) ELSE 0])

\* the texts a surface carries in the model
SurfaceTexts ==
    {Str("done"), Str("done "), Str("mail a@b.com"), Str("key sk-1234567890ABCDEF"),
     Str("card 4111 1111 1111 1111"), Str("")}

\* _trim(s, n): strip, and cut to n characters (no text of the model is
\* longer than MAX_OUT_LEN)
_trim(s) == IF s = Str("done ") THEN Str("done") ELSE s

\* redacted_text, redactions, blocked = _redact(text), on the texts of the
\* model: the e-mail address is replaced, the API key and the card number
\* (which passes the Luhn check) are replaced and block
_redact(text) ==
    LET Hit(typ) == <<Map(("type" :> Str(typ)) @@ ("count" :> Num(1)))>>
    IN CASE text = Str("mail a@b.com") ->
              [out |-> Str("mail [REDACTED_EMAIL]"), redactions |-> Hit("email"),
               blocked |-> FALSE]
         [] text = Str("key sk-1234567890ABCDEF") ->
              [out |-> Str("key [REDACTED_SECRET]"), redactions |-> Hit("api_key"),
               blocked |-> TRUE]
         [] text = Str("card 4111 1111 1111 1111") ->
              [out |-> Str("card [REDACTED_CARD]"), redactions |-> Hit("credit_card"),
               blocked |-> TRUE]
         [] OTHER -> [out |-> text, redactions |-> <<>>, blocked |-> FALSE]

\* B6F3: dialog.surface -> dialog.final
b6f3_safety_filter(input_json) ==
    LET surf == _get(input_json, <<"dialog", "surface">>, EmptyMap)
        _ensure_str(x) == IF x.kind = "str" THEN x ELSE Str("")
        move == _ensure_str(GetOr(surf, "move", Null))
        text == _ensure_str(GetOr(surf, "text", Null))
        lang == _ensure_str(GetOr(surf, "language", Null))
        must_confirm ==
            ~Falsy(_get(input_json, <<"planner", "plan", "guardrails", "must_confirm">>,
                        Bool(FALSE)))
        dry_summary == _ensure_str(_get(input_json, <<"planner", "plan", "dry_run_summary">>,
                                        Str("")))
        Final(red, final_move, final_text, reason) ==
            Map(("status" :> Str("OK"))
                @@ ("dialog" :> Map("final" :>
                      Map(("move" :> final_move) @@ ("text" :> final_text)
                          @@ ("redactions" :> Lst(red.redactions))
                          @@ ("blocked" :> Bool(red.blocked))
                          @@ ("reason" :> reason) @@ ("meta" :> Meta("B6F3")))))
                @@ ("diag" :> Map("reason" :> Str("ok"))))
    IN IF ~IsMap(surf) \/ surf = EmptyMap
       THEN Map(("status" :> Str("SKIP")) @@ ("dialog" :> Map("final" :> EmptyMap))
                @@ ("diag" :> Map("reason" :> Str("no_surface"))))
       ELSE Once(_redact(text), LAMBDA red :
              Once(_trim(red.out), LAMBDA red_text :
                IF red.blocked
                THEN Final(red, Str("confirm"),
                           Fmt("redacted_preview",
                               <<lang, _trim(IF red_text # Str("") THEN red_text
                                             ELSE dry_summary)>>),
                           Str("secret_detected"))
                ELSE IF must_confirm /\ move \in {Str("answer"), Str("ack"), Str("execute")}
                THEN Final(red, Str("confirm"),
                           IF dry_summary # Str("") THEN dry_summary
                           ELSE IF lang = Str("fa") THEN Str("taeid mikoni ersal shavad?")
                           ELSE Str("Confirm to send?"),
                           Str("must_confirm"))
                ELSE Final(red, move, red_text, Null)))

\* int(x or 0) of a value that is an int or missing
_int_or_0(x) == IF x.kind = "int" THEN x.val ELSE 0

\* str(x or default) of a value that is a string or missing
_str_or(x, default) == IF x = Absent \/ Falsy(x) THEN Str(default) ELSE x

\* a fired item put back due at once
_reschedule_now(it, now, cooldown) == With(it, "when_ms", Num(now))

\* it["when_ms"] = now + cooldown
_reschedule(it, now, cooldown) == With(it, "when_ms", Num(now + cooldown))

\* one iteration of `for it in q` of the initiative scheduler on its
\* accumulators acc = [new_q, dialog_busy, dialog_out, new_requests, taken]
_consume_item(acc, it, now) ==
    LET when_ms == _int_or_0(GetOr(it, "when_ms", Null))
        typ == _str_or(GetOr(it, "type", Absent), "")
        once == ~Falsy(GetOr(it, "once", Bool(TRUE)))
        cooldown == _int_or_0(GetOr(it, "cooldown_ms", Null))
        payload == Or(GetOr(it, "payload", Absent), EmptyMap)
        due == when_ms > 0 /\ when_ms <= now
        text == _str_or(GetOr(payload, "text", Absent), "")
        req == GetOr(payload, "req", Null)
        \* if not once and cooldown > 0: it["when_ms"] = now + cooldown; new_q.append(it)
        Requeued(q) == IF ~once /\ cooldown > 0
                       THEN Append(q, _reschedule(it, now, cooldown))
                       ELSE q
    IN IF ~due THEN [acc EXCEPT !.new_q = Append(@, it)]
       ELSE IF typ = Str("say") /\ ~acc.dialog_busy /\ text # Str("")
       THEN [acc EXCEPT !.dialog_out =
                            Map(("move" :> _str_or(GetOr(payload, "move", Absent), "answer"))
                                @@ ("text" :> text) @@ ("origin" :> Str("initiative"))),
                        !.dialog_busy = TRUE,
                        !.taken = @ + 1,
                        !.new_q = Requeued(@)]
       ELSE IF typ = Str("run_skill") /\ IsMap(req)
       THEN [acc EXCEPT !.new_requests = Append(@, req),
                        !.taken = @ + 1,
                        !.new_q = Requeued(@)]
       ELSE [acc EXCEPT !.new_q = Append(@, it)]

RECURSIVE _consume_last_first(_, _, _)
\* the loop run from the last item of the queue to the first
_consume_last_first(acc, q, now) ==
    IF q = <<>> THEN acc
    ELSE Once(_consume_item(acc, q[Len(q)], now), LAMBDA a :
           _consume_last_first(a, SubSeq(q, 1, Len(q) - 1), now))

RECURSIVE _consume(_, _, _)
\* for it in q: ... on the accumulators
_consume(acc, q, now) ==
    IF q = <<>> THEN acc
    ELSE Once(_consume_item(acc, Head(q), now), LAMBDA a : _consume(a, Tail(q), now))

\* _reflection_message(state, summary): the sentence about the latest rule
\* of the concept graph, None when there is none of a known type
_reflection_message(input_json) ==
    LET rules == Get(input_json, <<"concept_graph", "rules", "rules">>)
        rule == IF rules.kind = "list" /\ rules.val # <<>> THEN rules.val[Len(rules.val)] ELSE Null
        typ == GetOr(rule, "type", Null)
    IN IF ~IsMap(rule) THEN Null
       ELSE IF typ = Str("assoc")
       THEN Fmt("assoc", <<GetOr(rule, "u", Null), GetOr(rule, "v", Null)>>)
       ELSE IF typ = Str("synonym")
       THEN Fmt("synonym", <<GetOr(rule, "a", Null), GetOr(rule, "b", Null)>>)
       ELSE IF typ = Str("subsumes")
       THEN Fmt("subsumes", <<GetOr(rule, "parent", Null), GetOr(rule, "child", Null)>>)
       ELSE Null

\* B11F4: the due items of initiative.queue -> dialog.final (say) and
\* executor.requests (run_skill); the time is clock.now_ms.  The concept
\* graph's node names are not looked up in the reflection sentence, and the
\* uncertainty of the summary is in hundredths.
b11f4_initiative_scheduler(input_json) ==
    LET DEFAULT_INTROSPECTION_COOLDOWN == 15000
        DEFAULT_REFLECTION_COOLDOWN == 20000
        init == IF IsMap(GetOr(input_json, "initiative", Null))
                THEN input_json.val["initiative"] ELSE EmptyMap
        q0 == IF GetOr(init, "queue", Null).kind = "list"
              THEN SelectSeq(init.val["queue"].val, IsMap) ELSE <<>>
        cooldowns0 == IF IsMap(GetOr(init, "cooldowns", Null)) THEN init.val["cooldowns"]
                      ELSE EmptyMap
        now == _int_or_0(Get(input_json, <<"clock", "now_ms">>))
        smry == Get(input_json, <<"observability", "telemetry", "summary">>)
        summary == IF IsMap(smry) THEN smry ELSE EmptyMap
        \* _should_schedule_introspection
        intro == /\ ~Falsy(GetOr(summary, "needs_introspection", Null))
                 /\ now - _int_or_0(GetOr(cooldowns0, "introspection_ms", Null))
                      >= IntOf(summary, "introspection_cooldown_ms",
                               DEFAULT_INTROSPECTION_COOLDOWN)
        q1 == IF intro
              THEN Append(q0, Map(("type" :> Str("say")) @@ ("when_ms" :> Num(now))
                     @@ ("payload" :> Map("text" :>
                            IF IntOf(summary, "uncertainty", 0) >= 75
                            THEN Str("not sure, give more detail")
                            ELSE Str("need more information")))
                     @@ ("once" :> Bool(TRUE))
                     @@ ("cooldown_ms" :> GetOr(summary, "introspection_cooldown_ms",
                                                Num(DEFAULT_INTROSPECTION_COOLDOWN)))))
              ELSE q0
        cooldowns1 == IF intro THEN With(cooldowns0, "introspection_ms", Num(now))
                      ELSE cooldowns0
        \* _should_schedule_reflection
        reflect == /\ IntOf(summary, "concept_new_rules", 0) > 0
                   /\ now - _int_or_0(GetOr(cooldowns1, "reflection_ms", Null))
                        >= IntOf(summary, "reflection_cooldown_ms", DEFAULT_REFLECTION_COOLDOWN)
                   /\ _reflection_message(input_json) # Null
        q == IF reflect
             THEN Append(q1, Map(("type" :> Str("say")) @@ ("when_ms" :> Num(now))
                    @@ ("payload" :> Map(("text" :> _reflection_message(input_json))
                                         @@ ("move" :> Str("reflection"))))
                    @@ ("once" :> Bool(TRUE))
                    @@ ("cooldown_ms" :> GetOr(summary, "reflection_cooldown_ms",
                                               Num(DEFAULT_REFLECTION_COOLDOWN)))))
             ELSE q1
        cooldowns == IF reflect THEN With(cooldowns1, "reflection_ms", Num(now)) ELSE cooldowns1
        dialog_existing == Or(Get(input_json, <<"dialog", "final">>), EmptyMap)
        exec_block == Or(Get(input_json, <<"executor", "requests">>), Lst(<<>>))
        existing_reqs == IF exec_block.kind = "list" THEN exec_block.val ELSE <<>>
        Out(acc) ==
            Map(("status" :> Str("OK"))
                @@ ("initiative" :> Map(("queue" :> Lst(acc.new_q))
                       @@ ("stats" :> Map(("taken" :> Num(acc.taken))
                                          @@ ("remain" :> Num(Len(acc.new_q)))))
                       @@ ("cooldowns" :> cooldowns)))
                @@ (IF ~Falsy(acc.dialog_out)
                    THEN "dialog" :> Map(("final" :> acc.dialog_out)
                             @@ ("meta" :> Map("clears_previous" :> Bool(TRUE))))
                    ELSE <<>>)
                @@ (IF acc.new_requests # <<>> \/ existing_reqs # <<>>
                    THEN "executor" :> Map("requests" :> Lst(existing_reqs \o acc.new_requests))
                    ELSE <<>>))
    IN IF now <= 0 THEN Map(("status" :> Str("SKIP")) @@ ("diag" :> Map("reason" :> Str("no_clock"))))
       ELSE Once(_consume([new_q |-> <<>>, dialog_busy |-> ~Falsy(dialog_existing),
                           dialog_out |-> dialog_existing, new_requests |-> <<>>,
                           taken |-> 0], q, now), Out)

\* actions, reasons = _compose_actions(inp)
_compose_actions(inp) ==
    LET MAX_REQS == 24
        MAX_APPLY_OPS == 5000
        MAX_INDEX_ITEMS == 2000
        gates == Or(Get(inp, <<"runtime", "gates">>), EmptyMap)
        reasons == Or(Get(inp, <<"runtime", "reasons">>), Lst(<<>>)).val
        \* 3) persist
        apply_ops == Or(Get(inp, <<"storage", "apply_optimized", "ops">>),
                        Or(Get(inp, <<"storage", "apply", "ops">>), Lst(<<>>)))
        index_items == Or(Get(inp, <<"index", "queue_optimized", "items">>),
                          Or(Get(inp, <<"index", "queue", "items">>), Lst(<<>>)))
        \* _first_route
        _first_route(routes, rtype) ==
            LET hits == {i \in 1..Len(routes) :
                            IsMap(routes[i]) /\ GetOr(routes[i], "type", Null) = Str(rtype)}
            IN IF hits = {} THEN EmptyMap
               ELSE routes[CHOOSE i \in hits : \A j \in hits : i <= j]
        Routes(schedule) ==
            IF GetOr(schedule, "routes", Null).kind = "list"
            THEN schedule.val["routes"].val ELSE <<>>
        Action(schedule) ==
            IF GetOr(schedule, "action", Null).kind = "str"
            THEN schedule.val["action"].val ELSE ""
        \* 1) emit
        Text(raw) == IF raw.kind = "str" THEN raw ELSE Str("")
        \* 2) execute
        Limits(r) == IF IsMap(GetOr(r, "limits", Null)) THEN r.val["limits"]
                     ELSE Or(Get(gates, <<"limits">>), EmptyMap)
        Actions(delay_ms, action, text, r, run, limits) ==
            (IF delay_ms > 0
             THEN <<Map(("type" :> Str("delay")) @@ ("ms" :> Num(delay_ms)))>> ELSE <<>>)
            \o (IF action \in {"answer", "confirm"} /\ text # Str("")
                THEN <<Map(("type" :> Str("emit")) @@ ("move" :> Str(action))
                           @@ ("text" :> text))>>
                ELSE <<>>)
            \o (IF action = "execute" /\ run # <<>>
                THEN <<Map(("type" :> Str("execute")) @@ ("requests" :> Lst(run))
                           @@ ("limits" :> Map(("timeout_ms" :> Num(IntOf(limits, "timeout_ms", 30000)))
                                 @@ ("max_inflight" :> Num(IntOf(limits, "max_inflight", 4)))))
                           @@ ("defer" :> Lst(Or(GetOr(r, "defer", Absent), Lst(<<>>)).val)))>>
                ELSE <<>>)
            \o (IF ~Falsy(apply_ops) \/ ~Falsy(index_items)
                THEN <<Map(("type" :> Str("persist"))
                           @@ ("apply_ops" :> Lst(_cap_list(apply_ops, MAX_APPLY_OPS)))
                           @@ ("index_items" :> Lst(_cap_list(index_items, MAX_INDEX_ITEMS))))>>
                ELSE <<>>)
    IN Once(Or(Get(inp, <<"runtime", "schedule">>), EmptyMap), LAMBDA schedule :
        Once(Action(schedule), LAMBDA action :
         Once(_first_route(Routes(schedule), "execute"), LAMBDA r :
          Once(Text(Or(GetOr(_first_route(Routes(schedule), action), "text", Str("")),
                       _get(inp, <<"dialog", "final", "text">>, Str("")))), LAMBDA text :
           Once(_cap_list(Or(GetOr(r, "run", Absent), Lst(<<>>)), MAX_REQS), LAMBDA run :
            Once(Actions(IntOf(schedule, "delay_ms", 0), action, text, r, run, Limits(r)),
                 LAMBDA actions :
                   [actions |-> IF actions = <<>> THEN <<Map("type" :> Str("noop"))>>
                                ELSE actions,
                    reasons |-> reasons
                        \o (IF action \in {"answer", "confirm"} /\ text = Str("")
                            THEN <<Str("emit_without_text")>> ELSE <<>>)
                        \o (IF action = "execute" /\ run = <<>>
                            THEN <<Str("execute_without_run")>> ELSE <<>>)]))))))

\* B12F1: runtime.schedule -> engine.actions
b12f1_orchestrate(input_json) ==
    LET sched == _get(input_json, <<"runtime", "schedule">>, EmptyMap)
        Out(status, actions, halt, diag) ==
            Map(("status" :> Str(status))
                @@ ("engine" :> Map(("actions" :> Lst(actions)) @@ ("stop" :> Bool(halt))
                                    @@ ("meta" :> Meta("B12F1"))))
                @@ ("diag" :> Map(diag)))
    IN IF ~IsMap(sched) \/ sched = EmptyMap
       THEN Out("SKIP", <<>>, FALSE,
                ("reason" :> Str("no_schedule")) @@ ("counts" :> Map("actions" :> Num(0))))
       ELSE Once(_compose_actions(input_json), LAMBDA c :
              Out("OK", c.actions,
                  \E i \in 1..Len(c.actions) :
                      GetOr(c.actions[i], "type", Null) \in {Str("emit"), Str("execute")},
                  ("reason" :> Str("ok"))
                  @@ ("counts" :> Map("actions" :> Num(Len(c.actions))))
                  @@ ("reasons" :> Lst(c.reasons))))

\* the dotted paths of the model split at the dots, empty parts dropped
_parts(dotted) ==
    CASE dotted = "a" -> <<"a">>
      [] dotted = "b" -> <<"b">>
      [] dotted = "a.b" -> <<"a", "b">>
      [] OTHER -> <<>>

RECURSIVE _set_parts(_, _, _)
\* the loop of _set_path and of the stager's _apply_ops: the value is put at
\* the last part, every part before it that is not a dict becomes one
_set_parts(obj, parts, value) ==
    IF parts = <<>> THEN obj
    ELSE IF Len(parts) = 1 THEN With(obj, Head(parts), value)
    ELSE With(obj, Head(parts),
              _set_parts(IF IsMap(GetOr(obj, Head(parts), Null))
                         THEN obj.val[Head(parts)] ELSE EmptyMap,
                         Tail(parts), value))

\* _set_path(obj, dotted, value)
_set_path(obj, dotted, value) == _set_parts(obj, _parts(dotted), value)

\* _get_path(obj, dotted, default)
_get_path(obj, dotted, default) == _get(obj, _parts(dotted), default)

\* the preview keeps at most this many top-level keys
MAX_PREVIEW_ENTRIES == 200

\* _clip_preview(d): d itself up to the limit, beyond it the first keys and
\* a "..." entry
_clip_preview(d) ==
    IF Cardinality(Keys(d)) <= MAX_PREVIEW_ENTRIES THEN d
    ELSE LET kept == CHOOSE K \in SUBSET Keys(d) : Cardinality(K) = MAX_PREVIEW_ENTRIES
         IN With(Map([k \in kept |-> d.val[k]]), "...",
                 Fmt("+{n} more", <<Num(Cardinality(Keys(d)) - MAX_PREVIEW_ENTRIES)>>))

\* ok, reason = _validate_change(change): the reason
_validate_change(change) ==
    LET path == GetOr(change, "path", Null)
        b == GetOr(change, "bounds", Null)
        nv == GetOr(change, "new_value", Null)
        mn == GetOr(b, "min", Null)
        mx == GetOr(b, "max", Null)
    IN IF path.kind # "str" \/ _trim(path) = Str("") THEN "invalid_path"
       ELSE IF GetOr(change, "change_type", Null)
                  \notin {Str("tighten"), Str("relax"), Str("retune"), Str("set")}
       THEN "invalid_change_type"
       ELSE IF "new_value" \notin Keys(change) THEN "missing_value"
       ELSE IF IsMap(b) /\ Keys(b) \cap {"min", "max"} # {}
       THEN IF nv.kind # "int" \/ {mn.kind, mx.kind} \ {"int", "null"} # {}
            THEN "bounds_type_error"
            ELSE IF (mn # Null /\ nv.val < mn.val) \/ (mx # Null /\ nv.val > mx.val)
            THEN "out_of_bounds"
            ELSE "ok"
       ELSE "ok"

\* ok, reason = _validate_guards(delta): the reason; created_at and the
\* clock are in seconds
_validate_guards(delta, now) ==
    LET ttl == Get(delta, <<"guards", "ttl", "seconds">>)
        created == Get(delta, <<"meta", "created_at">>)
    IN IF ttl.kind = "int" /\ created.kind = "iso" /\ now - created.val > ttl.val
       THEN "ttl_expired" ELSE "ok"

\* one round of _plan_apply's loop on an accepted change that is not a no-op
_plan_set(acc, ch, path, new_val, old_val) ==
    [acc EXCEPT !.ops = Append(@, Map(("op" :> Str("set")) @@ ("path" :> path)
                                      @@ ("value" :> new_val))),
                !.accepted = Append(@, ch),
                !.diff_set = With(@, path.val, Map(("old" :> old_val) @@ ("new" :> new_val))),
                !.changed_keys = IF path.val \in Keys(acc.diff_set) THEN @ ELSE Append(@, path),
                !.current = _set_path(@, path.val, new_val),
                !.used = @ + 1]

\* one round of _plan_apply's loop
_plan_change(acc, ch, budget) ==
    Once(_validate_change(ch), LAMBDA reason :
      IF reason # "ok"
      THEN [acc EXCEPT !.rejected = Append(@, With(ch, "reason", Str(reason)))]
      ELSE IF budget # Null /\ acc.used >= budget.val
      THEN [acc EXCEPT !.rejected = Append(@, With(ch, "reason", Str("over_max_changes")))]
      ELSE IF _get_path(acc.current, ch.val["path"].val, Null) = ch.val["new_value"]
      THEN [acc EXCEPT !.accepted = Append(@, With(ch, "note", Str("noop")))]
      ELSE _plan_set(acc, ch, ch.val["path"], ch.val["new_value"],
                     _get_path(acc.current, ch.val["path"].val, Null)))

RECURSIVE _plan_loop(_, _, _)
\* the loop of _plan_apply over the changes of the delta
_plan_loop(acc, delta_changes, budget) ==
    IF delta_changes = <<>> THEN acc
    ELSE _plan_loop(_plan_change(acc, Head(delta_changes), budget),
                    Tail(delta_changes), budget)

\* accepted, rejected, plan = _plan_apply(current, delta_changes, max_changes):
\* the plan
_plan_apply(current, delta_changes, max_changes) ==
    Once(_plan_loop([current |-> current, accepted |-> <<>>, rejected |-> <<>>,
                     ops |-> <<>>, diff_set |-> EmptyMap, changed_keys |-> <<>>,
                     used |-> 0],
                    delta_changes, IF max_changes.kind = "int" THEN max_changes ELSE Null),
         LAMBDA acc :
           Map(("accepted" :> Lst(acc.accepted)) @@ ("rejected" :> Lst(acc.rejected))
               @@ ("ops" :> Lst(acc.ops))
               @@ ("preview" :> Map(("config" :> _clip_preview(acc.current))
                      @@ ("diff" :> Map(("set" :> acc.diff_set)
                                        @@ ("changed_keys" :> Lst(acc.changed_keys))))))))

\* the plan of a skipped run
_empty_plan(rejected) ==
    Map(("accepted" :> Lst(<<>>)) @@ ("rejected" :> Lst(rejected)) @@ ("ops" :> Lst(<<>>))
        @@ ("preview" :> Map(("config" :> EmptyMap)
               @@ ("diff" :> Map(("set" :> EmptyMap) @@ ("changed_keys" :> Lst(<<>>))))))
        @@ ("meta" :> Meta("B10F2")))

\* B10F2: policy.current and policy.delta -> policy.apply_plan
b10f2_plan_policy_apply(input_json, now) ==
    LET pol == IF IsMap(GetOr(input_json, "policy", Null))
               THEN input_json.val["policy"] ELSE EmptyMap
        cur == IF IsMap(GetOr(pol, "current", Null)) THEN pol.val["current"] ELSE EmptyMap
        delta == IF IsMap(GetOr(pol, "delta", Null)) THEN pol.val["delta"] ELSE EmptyMap
        changes == GetOr(delta, "changes", Lst(<<>>))
        Counts(a, r, o) == [accepted |-> a, rejected |-> r, ops |-> o]
    IN IF changes.kind # "list" \/ changes.val = <<>>
       THEN EnvCounts("SKIP", Map("policy" :> Map("apply_plan" :> _empty_plan(<<>>))),
                      "no_delta", Counts(0, 0, 0))
       ELSE IF _validate_guards(delta, now) # "ok"
       THEN EnvCounts("SKIP",
                      Map("policy" :> Map("apply_plan" :>
                            _empty_plan(<<Map("reason" :> Str(_validate_guards(delta, now)))>>))),
                      _validate_guards(delta, now), Counts(0, Len(changes.val), 0))
       ELSE Once(_plan_apply(cur, changes.val, _get(delta, <<"guards", "max_changes">>, Null)),
                 LAMBDA plan :
                   EnvCounts("OK",
                             Map("policy" :> Map("apply_plan" :> With(plan, "meta", Meta("B10F2")))),
                             IF plan.val["ops"].val # <<>> THEN "ok" ELSE "empty",
                             Counts(Len(plan.val["accepted"].val), Len(plan.val["rejected"].val),
                                    Len(plan.val["ops"].val))))

RECURSIVE _apply_set_ops(_, _)
\* the stager's _apply_ops(base, ops): the "set" ops with a path, in order
_apply_set_ops(base, ops) ==
    IF ops = <<>> THEN base
    ELSE LET op == Head(ops)
             path == GetOr(op, "path", Null)
         IN IF ~IsMap(op) \/ GetOr(op, "op", Null) # Str("set")
               \/ path.kind # "str" \/ path.val = ""
            THEN _apply_set_ops(base, Tail(ops))
            ELSE _apply_set_ops(_set_path(base, path.val, GetOr(op, "value", Null)),
                                Tail(ops))

\* the stage of a version: its documents, the three puts and the rollback
\* point
_stage(ns, ver_id, parent_id, created_at, proposed_cfg, n) ==
    LET key(kind, id) == Fmt("{ns}/{kind}/{id}", <<ns, Str(kind), id>>)
        version_doc ==
            Map(("id" :> ver_id) @@ ("parent_id" :> parent_id) @@ ("created_at" :> created_at)
                @@ ("author" :> Str("noema")) @@ ("rules_version" :> Str(RULES_VERSION))
                @@ ("changes" :> Num(n))
                @@ ("meta" :> Map("from" :> Str("B10F2.apply_plan"))))
        put(k, v) == Map(("op" :> Str("put")) @@ ("key" :> k) @@ ("value" :> v))
    IN Map(("version" :> Map(("id" :> ver_id) @@ ("parent_id" :> parent_id)
                  @@ ("created_at" :> created_at) @@ ("author" :> Str("noema"))
                  @@ ("changes" :> Num(n)) @@ ("comment" :> Str("staged by B10F3"))))
           @@ ("doc" :> Map("config" :> proposed_cfg))
           @@ ("storage_apply" :> Map(("namespace" :> ns)
                  @@ ("ops" :> Lst(<<put(key("versions", ver_id), version_doc),
                                     put(key("configs", ver_id), proposed_cfg),
                                     put(key("pointers", Str("current")),
                                         Map(("version_id" :> ver_id)
                                             @@ ("updated_at" :> created_at)))>>))
                  @@ ("meta" :> Meta("B10F3"))))
           @@ ("rollback_point" :> Map(("id" :> ver_id) @@ ("parent_id" :> parent_id)
                  @@ ("keys" :> Lst(<<key("pointers", Str("current")), key("versions", ver_id),
                                      key("configs", ver_id)>>))))
           @@ ("meta" :> Meta("B10F3")))

\* B10F3: policy.apply_plan -> policy.apply_stage; the version id is the
\* digest of the parent, the ops and the proposed config
b10f3_stage_policy_apply(input_json, now) ==
    LET pol == IF IsMap(GetOr(input_json, "policy", Null))
               THEN input_json.val["policy"] ELSE EmptyMap
        current == IF IsMap(GetOr(pol, "current", Null)) THEN pol.val["current"] ELSE EmptyMap
        plan == IF IsMap(GetOr(pol, "apply_plan", Null)) THEN pol.val["apply_plan"] ELSE EmptyMap
        ops == IF GetOr(plan, "ops", Null).kind = "list" THEN plan.val["ops"].val ELSE <<>>
        preview_cfg == _get(plan, <<"preview", "config">>, Null)
        parent_id == _get(pol, <<"version", "current_id">>, Null)
        tid == Or(_get(input_json, <<"session", "thread_id">>, Str("")), Str("default"))
    IN IF ops = <<>>
       THEN EnvCounts("SKIP", Map("policy" :> Map("apply_stage" :> EmptyMap)), "no_ops",
                      [set_ops |-> 0])
       ELSE Once(IF IsMap(preview_cfg) THEN preview_cfg ELSE _apply_set_ops(current, ops),
                 LAMBDA proposed_cfg :
                   EnvCounts("OK",
                     Map("policy" :> Map("apply_stage" :>
                       _stage(Fmt("config/noema/{tid}", <<tid>>),
                              _hash(Map(("parent" :> parent_id) @@ ("ops" :> Lst(ops))
                                        @@ ("proposed_cfg" :> proposed_cfg))),
                              parent_id, Iso(now), proposed_cfg, Len(ops)))),
                     "ok", [set_ops |-> Len(ops)]))

\* the tick's two orders
ORDER ==
    <<"b8f2_plan_apply", "b8f3_optimize_apply", "b9f1_aggregate_telemetry",
      "b9f2_build_trace", "b9f3_evaluate_slo", "b10f1_plan_policy_delta",
      "b10f2_plan_policy_apply", "b10f3_stage_policy_apply", "b11f1_activate_config",
      "b11f2_gatekeeper", "b11f3_schedule_runtime", "b11f4_initiative_scheduler",
      "b12f1_orchestrate", "b12f2_envelope_actions", "b12f3_build_jobs",
      "b13f1_build_protocol">>
ORDER2 ==
    <<"b13f2_normalize_driver_replies", "b9f1_aggregate_telemetry", "b9f3_evaluate_slo",
      "b13f3_plan_retry">>

\* registry[key](state) for the stages of the runtime and driver path; the
\* registry of the model holds no other stage, and the composer skips the
\* names it does not find
build_registry(key, input_json, now) ==
    CASE key = "b6f3_safety_filter" -> Returns(b6f3_safety_filter(input_json))
      [] key = "b10f2_plan_policy_apply" ->
            Returns(b10f2_plan_policy_apply(input_json, now))
      [] key = "b10f3_stage_policy_apply" ->
            Returns(b10f3_stage_policy_apply(input_json, now))
      [] key = "b11f1_activate_config" -> Returns(b11f1_activate_config(input_json, now))
      [] key = "b11f2_gatekeeper" -> Returns(b11f2_gatekeeper(input_json))
      [] key = "b11f3_schedule_runtime" -> Returns(b11f3_schedule_runtime(input_json))
      [] key = "b11f4_initiative_scheduler" -> Returns(b11f4_initiative_scheduler(input_json))
      [] key = "b12f1_orchestrate" -> Returns(b12f1_orchestrate(input_json))
      [] key = "b12f2_envelope_actions" -> Returns(b12f2_envelope_actions(input_json))
      [] key = "b12f3_build_jobs" -> Returns(b12f3_build_jobs(input_json))
      [] key = "b13f1_build_protocol" -> Returns(b13f1_build_protocol(input_json))
      [] key = "b13f2_normalize_driver_replies" ->
            Returns(b13f2_normalize_driver_replies(input_json))
      [] key = "b13f3_plan_retry" -> Returns(b13f3_plan_retry(input_json))
      [] OTHER -> NoStage

RECURSIVE KernelLoop(_, _, _)
\* for key in steps: ... on the accumulators
KernelLoop(acc, order, now) ==
    IF order = <<>> THEN acc
    ELSE Once(acc, LAMBDA a :
           Once(_call(Head(order), build_registry(Head(order), a.state, now)), LAMBDA res :
             KernelLoop(KernelLoopBody(a, Head(order), res), Tail(order), now)))

\* b0f1_kernel_step(input_json, registry, order) with the registry above
b0f1_kernel_step(input_json, order, now) ==
    KernelResult(KernelLoop([state |-> InputState(input_json), ran |-> <<>>,
                             skipped |-> <<>>, errors |-> <<>>], order, now))

\* s.setdefault("clock", {})["now_ms"] = int(time.time() * 1000)
_inject_clock(s, now) == With(s, "clock", With(GetOr(s, "clock", EmptyMap), "now_ms", Num(now)))

\* the subsystems a frame can be addressed to
Subsystems == {"transport", "skills", "storage", "timer"}

\* every handler is present, returns and replies with a dict
NoFault == [t \in Subsystems |-> "none"]

\* a driver set: whether transport and storage succeed, the req_ids the
\* skills driver fails, what a storage reply echoes of the frame (all of it,
\* the apply ops only, nothing), and per subsystem whether the handler is
\* absent from the set, raises, or returns something that is not a dict
DriverSets(echoes, faults) ==
    [transport : BOOLEAN, storage : BOOLEAN, skills : SUBSET {Str("r1"), Str("r2")},
     echo : echoes, fault : faults]

\* the driver stubs: every handler present, returning a well-formed reply
Drivers == DriverSets({"all"}, {NoFault})

\* drivers[...][...](fr): the reply of a handler that returns a dict
DriverReply(fr, drivers) ==
    CASE fr.val["type"] = Str("transport") ->
           Map(("type" :> Str("transport")) @@ ("ok" :> Bool(drivers.transport))
               @@ ("channel" :> GetOr(fr, "channel", Str("default")))
               @@ ("messages" :> Or(GetOr(fr, "messages", Absent), Lst(<<>>))))
      [] fr.val["type"] = Str("skills") ->
           LET calls == SelectSeq(Or(GetOr(fr, "calls", Absent), Lst(<<>>)).val, IsMap)
           IN Map(("type" :> Str("skills"))
                  @@ ("ok" :> Bool(\A i \in 1..Len(calls) :
                                      GetOr(calls[i], "req_id", Null) \notin drivers.skills))
                  @@ ("calls" :> Lst([i \in 1..Len(calls) |->
                        Map(("req_id" :> GetOr(calls[i], "req_id", Null))
                            @@ ("ok" :> Bool(GetOr(calls[i], "req_id", Null)
                                               \notin drivers.skills)))])))
      [] fr.val["type"] = Str("storage") ->
           Map(("type" :> Str("storage")) @@ ("ok" :> Bool(drivers.storage))
               @@ ("apply" :> Map("ops" :> IF drivers.echo \in {"all", "apply"}
                                           THEN Or(GetOr(fr, "apply", Absent), Lst(<<>>))
                                           ELSE Lst(<<>>)))
               @@ ("index" :> Map("queue" :> IF drivers.echo = "all"
                                             THEN Or(GetOr(fr, "index", Absent), Lst(<<>>))
                                             ELSE Lst(<<>>))))
      [] fr.val["type"] = Str("timer") ->
           Map(("type" :> Str("timer")) @@ ("ok" :> Bool(TRUE))
               @@ ("sleep_ms" :> Num(IntOf(fr, "sleep_ms", 0))))

\* the loop of _dispatch_frames run from the last frame to the first, with
\* handlers that return
_dispatch_frames_backwards(frames, drivers) ==
    LET back == [i \in 1..Len(frames) |-> frames[Len(frames) + 1 - i]]
    IN [raised |-> "", calls |-> back,
        replies |-> [i \in 1..Len(back) |-> DriverReply(back[i], drivers)]]

\* for fr in frames: replies.append(drivers[typ][handler](fr)) for the four
\* known types.  calls lists the frames handed to a handler, in order;
\* raised names the exception that left the loop ("" when none did): the
\* KeyError of a subsystem absent from the driver set, or whatever a handler
\* raised; replies are those appended before that.
_dispatch_frames(frames, drivers) ==
    LET known == SelectSeq(frames, LAMBDA fr :
                    GetOr(fr, "type", Null) \in {Str(t) : t \in Subsystems})
        Fault(i) == drivers.fault[known[i].val["type"].val]
        bad == {i \in 1..Len(known) : Fault(i) \in {"absent", "raise"}}
        stop == IF bad = {} THEN Len(known) + 1 ELSE CHOOSE i \in bad : \A j \in bad : i <= j
    IN [raised |-> IF bad = {} THEN ""
                   ELSE IF Fault(stop) = "absent" THEN "KeyError" ELSE "RuntimeError",
        calls |-> SubSeq(known, 1, IF bad # {} /\ Fault(stop) = "raise" THEN stop ELSE stop - 1),
        replies |-> [i \in 1..(stop - 1) |->
                        IF Fault(i) = "malformed" THEN Null ELSE DriverReply(known[i], drivers)]]

\* run_tick_io step by step: s1 after the first pass, the frames it left,
\* the frames handed to the drivers and the replies to them, what the retry
\* planner returned, the exception that left the tick ("" when none did)
\* and the state returned (none when an exception left the tick)
TickTrace(state_in, drivers, now) ==
    Once(b0f1_kernel_step(_inject_clock(state_in, now), ORDER, now).state, LAMBDA s1 :
      Once(Or(Get(s1, <<"driver", "protocol", "frames">>), Lst(<<>>)).val, LAMBDA frames :
        IF frames = <<>>
        THEN [s1 |-> s1, frames |-> <<>>, calls |-> <<>>, replies |-> <<>>, raised |-> "",
              planner |-> EmptyMap, final |-> s1]
        ELSE Once(_dispatch_frames(frames, drivers), LAMBDA d :
               IF d.raised # ""
               THEN [s1 |-> s1, frames |-> frames, calls |-> d.calls, replies |-> d.replies,
                     raised |-> d.raised, planner |-> EmptyMap, final |-> Absent]
               ELSE Once(With(s1, "driver",
                              With(GetOr(s1, "driver", EmptyMap), "replies", Lst(d.replies))),
                         LAMBDA s1r :
                           [s1 |-> s1, frames |-> frames, calls |-> d.calls,
                            replies |-> d.replies, raised |-> "",
                            planner |-> b13f3_plan_retry(
                                           b0f1_kernel_step(s1r, SubSeq(ORDER2, 1, 3), now).state),
                            final |-> b0f1_kernel_step(s1r, ORDER2, now).state]))))

run_tick_io(state_in, drivers, now) == TickTrace(state_in, drivers, now).final

---------------------------------------------------------------------------
(* run_tick_io over a sequence of ticks: the caller hands each tick the state
   the previous one returned.  The states hold the engine.actions an
   orchestration left and no runtime.config, so that gatekeeper, scheduler
   and orchestrator skip and the actions reach the enveloper. *)

\* the longest sequence of ticks
MaxTicks == 3

\* the states the ticks start from: the actions b12f1_orchestrate leaves in
\* engine.actions
TickInputs ==
    LET emit == Map(("type" :> Str("emit")) @@ ("move" :> Str("answer"))
                    @@ ("text" :> Str("hi")))
        execute == Map(("type" :> Str("execute"))
                       @@ ("requests" :> Lst(<<Map("req_id" :> Str("r1")),
                                               Map("req_id" :> Str("r2"))>>)))
        persist == Map(("type" :> Str("persist"))
                       @@ ("apply_ops" :> Lst(<<Map("op" :> Str("put"))>>))
                       @@ ("index_items" :> Lst(<<Map("id" :> Str("d1"))>>)))
        delay == Map(("type" :> Str("delay")) @@ ("ms" :> Num(5)))
        noop == Map("type" :> Str("noop"))
    IN {Map("engine" :> Map("actions" :> Lst(as))) :
           as \in {<<>>, <<noop>>, <<emit>>, <<execute>>, <<persist>>, <<delay, emit>>,
                   <<emit, execute>>}}

\* what one tick did: the frames it dispatched, the retry jobs its planner
\* returned and the job ids it counted an attempt for, and
\* driver.history.attempts before and after the tick
TickRecord(state_in, tr) ==
    LET before == _attempts_map(state_in)
        next == Or(Get(tr.planner, <<"driver", "retry", "attempts_next">>), EmptyMap)
        jobs == Or(Get(tr.s1, <<"driver", "jobs">>), Lst(<<>>)).val
        \* the subsystem of the job with id jid
        KindOf(jid) ==
            LET j == CHOOSE j \in {jobs[i] : i \in 1..Len(jobs)} :
                        GetOr(j, "job_id", Null) = jid
            IN CASE j.val["type"] = Str("skills.execute") -> "skills"
                 [] j.val["type"] = Str("transport.emit") -> "transport"
                 [] j.val["type"] = Str("storage.apply_index") -> "storage"
                 [] OTHER -> "timer"
    IN [sent |-> tr.frames,
        retry |-> Or(Get(tr.planner, <<"driver", "retry", "jobs">>), Lst(<<>>)).val,
        bumped |-> {[jid |-> j, kind |-> KindOf(j)] :
                      j \in {k \in Keys(next) :
                               next.val[k].val > (IF k \in DOMAIN before THEN before[k] ELSE 0)}},
        before |-> before,
        after |-> _attempts_map(tr.final)]

TickIdle == ts = EmptyMap /\ tlog = <<>> /\ wall = 0

InitTick == ts \in TickInputs /\ tlog = <<>> /\ wall = 0

\* state = run_tick_io(state, drivers), the clock having advanced or not
Tick ==
    /\ Len(tlog) < MaxTicks
    /\ \E drivers \in Drivers, now \in {wall, wall + 1} :
          \E tr \in {TickTrace(ts, drivers, now)} :
             /\ ts' = tr.final
             /\ tlog' = Append(tlog, TickRecord(ts, tr))
             /\ wall' = now

---------------------------------------------------------------------------
(* run_tick_io once, from a state that holds what the stages before the tick
   left (config, scores, pending requests, the dialog's final turn, storage
   and index work), with a driver set that may fail, reply partially, raise
   or lack a handler *)

\* what the clock reads during the tick
RunNow == 1

\* a queue longer than the orchestrator's bound on the requests of an action
\* (24), with a max_inflight above its length
RequestIds ==
    <<"q01", "q02", "q03", "q04", "q05", "q06", "q07", "q08", "q09", "q10", "q11", "q12", "q13",
      "q14", "q15", "q16", "q17", "q18", "q19", "q20", "q21", "q22", "q23", "q24", "q25", "q26">>

\* the states the tick is handed: states with a runtime.config, for the
\* gatekeeper, the scheduler and the orchestrator to act on, and states that
\* hold the engine.actions of an orchestration
RunInputs ==
    LET Config(mi) ==
            "runtime" :> Map("config" :> Map(
                ("guardrails" :> Map("must_confirm" :> Map("u_threshold" :> Num(40))))
                @@ ("executor" :> Map("parallelism" :> Map("max_inflight" :> Num(mi))))))
        Score(u) == IF u = 0 THEN <<>>
                    ELSE "world_model" :> Map("uncertainty" :> Map("score" :> Num(u)))
        Requests(n) ==
            IF n = 0 THEN <<>>
            ELSE "executor" :> Map("requests" :>
                    Lst(<<Map(("req_id" :> Str("r1")) @@ ("skill_id" :> Str("write"))),
                          Map(("req_id" :> Str("r2")) @@ ("skill_id" :> Str("write")))>>))
        Final(m) == IF m = "" THEN <<>>
                    ELSE "dialog" :> Map("final" :> Map(("move" :> Str(m))
                                                        @@ ("text" :> Str("hi"))))
        Work(w) ==
            (IF w = "none" THEN <<>>
             ELSE ("storage" :> Map("apply" :> Map("ops" :> Lst(<<Map("op" :> Str("put"))>>))))
                  @@ ("index" :> Map("queue" :> Map("items" :> Lst(<<Map("id" :> Str("d1"))>>)))))
            @@ (IF w = "slow"
                THEN "observability" :> Map("telemetry" :> Map("metrics" :>
                        Lst(<<Map(("name" :> Str("exec_avg_latency_ms"))
                                  @@ ("value" :> Num(1510)))>>)))
                ELSE <<>>)
    IN {Map(Config(c.mi) @@ Score(c.u) @@ Requests(c.n) @@ Final(c.m) @@ Work(c.w)) :
           c \in {x \in [mi : {1, 4}, u : {0, 50}, n : {0, 2}, m : {"", "answer", "execute"},
                         w : {"none", "work", "slow"}] :
                     /\ x.mi = 1 => (x.n = 2 /\ x.u = 0 /\ x.m = "")
                     /\ x.m = "execute" => (x.n = 2 /\ x.u = 50 /\ x.w = "none")
                     /\ x.w = "slow" => x.m # ""}}
       \cup {Map(Config(30)
                 @@ ("executor" :> Map("requests" :> Lst([i \in DOMAIN RequestIds |->
                        Map(("req_id" :> Str(RequestIds[i])) @@ ("skill_id" :> Str("write")))]))))}
       \cup {u \in TickInputs : Len(Get(u, <<"engine", "actions">>).val) = 2}
       \cup {Map("engine" :> Map("actions" :> Lst(<<
                 Map(("type" :> Str("delay")) @@ ("ms" :> Num(5))),
                 Map(("type" :> Str("persist"))
                     @@ ("apply_ops" :> Lst(<<Map("op" :> Str("put"))>>))),
                 Map(("type" :> Str("execute"))
                     @@ ("requests" :> Lst(<<Map("req_id" :> Str("r2"))>>))),
                 Map(("type" :> Str("emit")) @@ ("move" :> Str("answer"))
                     @@ ("text" :> Str("hi")))>>)))}

\* the driver sets the tick is handed: the stubs, storage drivers that reply
\* partially, and sets where one subsystem is absent, raises or returns
\* something that is not a dict
RunDrivers ==
    {d \in DriverSets({"all", "apply", "none"}, {NoFault}) :
        /\ d.skills # {Str("r1")}
        /\ d.storage => d.echo = "all"}
    \cup {d \in DriverSets({"all"}, {[NoFault EXCEPT ![t] = f] :
                                       t \in Subsystems, f \in {"absent", "raise", "malformed"}}) :
             d.transport /\ d.storage /\ d.skills = {}}

NoTrace ==
    [s1 |-> EmptyMap, frames |-> <<>>, calls |-> <<>>, replies |-> <<>>, raised |-> "",
     planner |-> EmptyMap, final |-> EmptyMap]

RunIdle ==
    /\ oin = EmptyMap /\ otr = NoTrace /\ opc = "idle"
    /\ odrv = [transport |-> TRUE, storage |-> TRUE, skills |-> {}, echo |-> "all",
               fault |-> NoFault]

InitRun == oin \in RunInputs /\ odrv \in RunDrivers /\ otr = NoTrace /\ opc = "in"

\* run_tick_io(state, drivers)
Run ==
    /\ opc = "in"
    /\ otr' = TickTrace(oin, odrv, RunNow)
    /\ opc' = "out"
    /\ UNCHANGED <<oin, odrv>>

---------------------------------------------------------------------------
(* the composer and the tick invoked again on the same input *)

\* how often the same input is replayed
Replays == 2

\* the inputs replayed: those of the ticks, with and without a staged
\* policy version (what b10f3_stage_policy_apply leaves in the state)
ReplayInputs ==
    LET ApplyStage(prev) ==
            Map("policy" :> Map(("apply_stage" :>
                                   Map(("version" :> Map("id" :> Str("v1")))
                                       @@ ("doc" :> Map("config" :> Map("a" :> Str("x"))))))
                                @@ prev))
    IN TickInputs
       \cup {ApplyStage("current_runtime" :> Map(("a" :> Str("y")) @@ ("b" :> Str("z"))))}
       \cup {_deep_merge(ApplyStage(<<>>), t) :
                t \in {u \in TickInputs : Len(Get(u, <<"engine", "actions">>).val) # 1}}

ReplayIdle ==
    /\ rin = EmptyMap /\ rdrv = [transport |-> TRUE, storage |-> TRUE, skills |-> {}, echo |-> "all",
               fault |-> NoFault]
    /\ rres = <<>> /\ tres = <<>> /\ rwall = 0

InitReplay ==
    /\ rin \in ReplayInputs
    /\ rdrv \in {d \in Drivers : d.transport = d.storage /\ d.skills \in {{}, {Str("r2")}}}
    /\ rres = <<>> /\ tres = <<>> /\ rwall = 0

\* b0f1_kernel_step(input, registry, ORDER) once more on the same input
RKernel ==
    /\ Len(rres) < Replays
    /\ \E now \in {rwall, rwall + 1} :
          /\ rres' = Append(rres, b0f1_kernel_step(rin, ORDER, now))
          /\ rwall' = now
    /\ UNCHANGED <<rin, rdrv, tres>>

\* run_tick_io(input, drivers) once more on the same input
RTick ==
    /\ Len(tres) < Replays
    /\ \E now \in {rwall, rwall + 1} :
          /\ tres' = Append(tres, run_tick_io(rin, rdrv, now))
          /\ rwall' = now
    /\ UNCHANGED <<rin, rdrv, rres>>

---------------------------------------------------------------------------
(* the drivers of n3_drivers: what the handlers do with the frames they are
   handed, one after the other, in one process *)

\* how many frames the handlers are handed
MaxFrames == 3

\* the frames handed: frames with equal idempotency_key are equal
DriverFrames ==
    LET Call(r, sid) == Map(("req_id" :> Str(r)) @@ ("skill_id" :> Str(sid))
                            @@ ("params" :> Map("text" :> Str("doc"))))
        Put(v) == Map(("op" :> Str("put")) @@ ("key" :> Str("a")) @@ ("value" :> Num(v)))
        Doc(t) == Map(("type" :> Str("doc")) @@ ("id" :> Str("d1")) @@ ("text" :> Str(t)))
    IN {Map(("type" :> Str("transport")) @@ ("channel" :> Str("c"))
            @@ ("messages" :> Lst(<<Map("text" :> Str("hi"))>>))
            @@ ("idempotency_key" :> Str("em1"))),
        Map(("type" :> Str("transport")) @@ ("text" :> Str("bye"))
            @@ ("idempotency_key" :> Str("em2"))),
        Map(("type" :> Str("skills")) @@ ("calls" :> Lst(<<Call("r1", "skill.dev.ingest")>>))
            @@ ("idempotency_key" :> Str("sk1"))),
        Map(("type" :> Str("skills")) @@ ("calls" :> Lst(<<Call("r2", "skill.dev.echo")>>))
            @@ ("idempotency_key" :> Str("sk2"))),
        Map(("type" :> Str("storage")) @@ ("apply" :> Lst(<<Put(1)>>))
            @@ ("index" :> Lst(<<Doc("x")>>)) @@ ("idempotency_key" :> Str("st1"))),
        Map(("type" :> Str("storage")) @@ ("apply" :> Map("ops" :> Lst(<<Put(2)>>)))
            @@ ("index" :> Map("queue" :> Lst(<<Doc("y")>>)))
            @@ ("idempotency_key" :> Str("st2"))),
        Map(("type" :> Str("storage"))
            @@ ("apply" :> Lst(<<Put(3), Map(("op" :> Str("inc")) @@ ("key" :> Str("n")))>>))
            @@ ("idempotency_key" :> Str("st3"))),
        Map(("type" :> Str("timer")) @@ ("sleep_ms" :> Num(5))
            @@ ("idempotency_key" :> Str("tm1")))}

\* for m in msgs: _OUTBOX.append({"channel": ch, **m})
emit(outbox, frame) ==
    LET given == GetOr(frame, "messages", Null)
        msgs == Or(IF Falsy(given) /\ "text" \in Keys(frame)
                   THEN Lst(<<Map("text" :> frame.val["text"])>>) ELSE given, Lst(<<>>)).val
        ch == GetOr(frame, "channel", Str("default"))
    IN outbox \o [i \in 1..Len(msgs) |-> Map(msgs[i].val @@ ("channel" :> ch))]

\* _run_call for every call of the frame: skill.dev.ingest appends the
\* document to _INDEX under the id doc:<len + 1> when the call names none;
\* the other skills of the runner leave _INDEX alone
RECURSIVE _run_calls(_, _)
_run_calls(index, calls) ==
    IF calls = <<>> THEN index
    ELSE LET call == Head(calls)
             params == IF IsMap(GetOr(call, "params", Null)) THEN call.val["params"] ELSE EmptyMap
             text == Or(GetOr(params, "text", Absent), Str(""))
             doc == Map(("id" :> Or(GetOr(params, "id", Absent), Fmt("doc:{}", <<Len(index) + 1>>)))
                        @@ ("text" :> text))
         IN _run_calls(IF GetOr(call, "skill_id", Null) = Str("skill.dev.ingest") /\ text # Str("")
                       THEN Append(index, doc) ELSE index,
                       Tail(calls))

execute(index, frame) ==
    _run_calls(index, SelectSeq(Or(GetOr(frame, "calls", Absent), Lst(<<>>)).val, IsMap))

\* _apply_ops: a put upserts the row of its key; an inc executes a statement
\* with three placeholders and two bindings, which raises.  The rows after
\* the ops and whether an op raised.
RECURSIVE _apply_ops(_, _)
_apply_ops(rows, ops) ==
    IF ops = <<>> THEN [raised |-> FALSE, rows |-> rows]
    ELSE LET op == Head(ops)
         IN IF ~IsMap(op) THEN _apply_ops(rows, Tail(ops))
            ELSE IF GetOr(op, "op", Null) = Str("put")
            THEN _apply_ops((GetOr(op, "key", Null) :> GetOr(op, "value", Null)) @@ rows, Tail(ops))
            ELSE IF GetOr(op, "op", Null) = Str("inc") THEN [raised |-> TRUE, rows |-> rows]
            ELSE _apply_ops(rows, Tail(ops))

\* _index_items: index_doc replaces the row of a doc item's id
RECURSIVE _index_items(_, _)
_index_items(rows, items) ==
    IF items = <<>> THEN rows
    ELSE LET it == Head(items)
         IN _index_items(IF IsMap(it) /\ GetOr(it, "type", Null) = Str("doc")
                            /\ GetOr(it, "id", Null).kind = "str"
                            /\ GetOr(it, "text", Null).kind = "str"
                         THEN (it.val["id"] :> it.val["text"]) @@ rows ELSE rows,
                         Tail(items))

\* apply_index: the ops and the items in one transaction, rolled back when
\* an op raises
apply_index(db, frame) ==
    LET apply_field == Or(GetOr(frame, "apply", Absent), EmptyMap)
        index_field == Or(GetOr(frame, "index", Absent), EmptyMap)
        apply_ops == IF IsMap(apply_field) THEN GetOr(apply_field, "ops", Lst(<<>>)).val
                     ELSE SelectSeq(apply_field.val, IsMap)
        index_queue == IF IsMap(index_field) THEN GetOr(index_field, "queue", Lst(<<>>)).val
                       ELSE SelectSeq(index_field.val, IsMap)
        applied == _apply_ops(db.kv, apply_ops)
    IN IF applied.raised THEN db
       ELSE [kv |-> applied.rows, fts |-> _index_items(db.fts, index_queue)]

\* the keys of the frames in fs
KeysOf(fs) == {GetOr(fs[i], "idempotency_key", Null) : i \in DOMAIN fs}

FramesOf(t) == {fr \in DriverFrames : fr.val["type"] = Str(t)}

DriversIdle == _OUTBOX = <<>> /\ _INDEX = <<>> /\ kv = <<>> /\ fts = <<>> /\ handed = <<>>

InitDrivers == DriversIdle

\* drivers["transport"]["emit"](fr)
Emit ==
    /\ Len(handed) < MaxFrames
    /\ \E fr \in FramesOf("transport") :
          /\ _OUTBOX' = emit(_OUTBOX, fr)
          /\ handed' = Append(handed, fr)
    /\ UNCHANGED <<_INDEX, kv, fts>>

\* drivers["skills"]["execute"](fr)
Execute ==
    /\ Len(handed) < MaxFrames
    /\ \E fr \in FramesOf("skills") :
          /\ _INDEX' = execute(_INDEX, fr)
          /\ handed' = Append(handed, fr)
    /\ UNCHANGED <<_OUTBOX, kv, fts>>

\* drivers["storage"]["apply_index"](fr)
ApplyIndex ==
    /\ Len(handed) < MaxFrames
    /\ \E fr \in FramesOf("storage") :
          /\ LET db == apply_index([kv |-> kv, fts |-> fts], fr)
             IN kv' = db.kv /\ fts' = db.fts
          /\ handed' = Append(handed, fr)
    /\ UNCHANGED <<_OUTBOX, _INDEX>>

\* drivers["timer"]["sleep"](fr)
SleepMs ==
    /\ Len(handed) < MaxFrames
    /\ \E fr \in FramesOf("timer") : handed' = Append(handed, fr)
    /\ UNCHANGED <<_OUTBOX, _INDEX, kv, fts>>

---------------------------------------------------------------------------
(* POST /chat: chat() is a plain def, which the server runs in a thread of
   its pool for each request; the handlers below are two requests for the
   same thread_id.  A handler's steps are the statements of chat(); a tick
   takes two steps, its deep copy of the state and its return. *)

\* the requests handled, and the text of each
Handlers == {"h1", "h2"}
ChatText(h) == IF h = "h1" THEN "alpha" ELSE "beta"

\* what the clock reads during the requests
ChatNow == 1

\* the driver set of the route
ChatDrivers ==
    [transport |-> TRUE, storage |-> TRUE, skills |-> {}, echo |-> "all", fault |-> NoFault]

\* the state the session has before the requests
SessionStart ==
    Map(("session" :> Map("thread_id" :> Str("t")))
        @@ ("runtime" :> Map("config" :> Map(
                "executor" :> Map("parallelism" :> Map("max_inflight" :> Num(4)))))))

\* state.setdefault("executor", {}).setdefault("requests", []).append({...})
_chat_search(s, text) ==
    LET executor == GetOr(s, "executor", EmptyMap)
        reqs == GetOr(executor, "requests", Lst(<<>>)).val
    IN With(s, "executor", With(executor, "requests", Lst(Append(reqs,
           Map(("req_id" :> Str("r-chat-search")) @@ ("skill_id" :> Str("skill.dev.search"))
               @@ ("params" :> Map(("q" :> Str(text)) @@ ("k" :> Num(5)))))))))

\* state["executor"]["requests"] = []; state["dialog"] = {"final": {...}},
\* the snippet being the echo of the text when the search had no hits
_chat_answer(s, text) ==
    With(With(s, "executor", With(GetOr(s, "executor", EmptyMap), "requests", Lst(<<>>))),
         "dialog", Map("final" :> Map(("move" :> Str("answer")) @@ ("text" :> Str(text)))))

\* chat() with no other request under way: the state it saves
ChatAlone(s, text) ==
    Once(run_tick_io(_chat_search(s, text), ChatDrivers, ChatNow), LAMBDA s1 :
      Once(run_tick_io(_chat_answer(s1, text), ChatDrivers, ChatNow), LAMBDA s2 : s2))

ChatIdle ==
    /\ _STATE_CACHE = 0 /\ session_state = EmptyMap /\ cheap = <<>>
    /\ cstate = <<>> /\ ccopy = <<>> /\ cpc = <<>>

\* the session is in the table, and in the cache or not
InitChat ==
    /\ session_state = SessionStart
    /\ \/ _STATE_CACHE = 0 /\ cheap = <<>>
       \/ _STATE_CACHE = 1 /\ cheap = <<SessionStart>>
    /\ cstate = [h \in Handlers |-> 0]
    /\ ccopy = [h \in Handlers |-> EmptyMap]
    /\ cpc = [h \in Handlers |-> "start"]

\* state = ensure_state(req.thread_id): the cached dict itself, or the row
\* loaded into a new dict that is put in the cache
EnsureState(h) ==
    /\ cpc[h] = "start"
    /\ IF _STATE_CACHE # 0
       THEN /\ cstate' = [cstate EXCEPT ![h] = _STATE_CACHE]
            /\ UNCHANGED <<_STATE_CACHE, cheap>>
       ELSE /\ cheap' = Append(cheap, session_state)
            /\ _STATE_CACHE' = Len(cheap) + 1
            /\ cstate' = [cstate EXCEPT ![h] = Len(cheap) + 1]
    /\ cpc' = [cpc EXCEPT ![h] = "ensured"]
    /\ UNCHANGED <<session_state, ccopy>>

\* reqs.append({"req_id": "r-chat-search", ...}), on the dict state refers to
AppendSearch(h) ==
    /\ cpc[h] = "ensured"
    /\ cheap' = [cheap EXCEPT ![cstate[h]] = _chat_search(@, ChatText(h))]
    /\ cpc' = [cpc EXCEPT ![h] = "search"]
    /\ UNCHANGED <<_STATE_CACHE, session_state, cstate, ccopy>>

\* run_tick_io(state, _DRIVERS) up to the kernel's copy.deepcopy(input_json):
\* the clock is written into the dict state refers to, which is then copied
TickEnter(h) ==
    /\ cpc[h] \in {"search", "answer"}
    /\ cheap' = [cheap EXCEPT ![cstate[h]] = _inject_clock(@, ChatNow)]
    /\ ccopy' = [ccopy EXCEPT ![h] = _inject_clock(cheap[cstate[h]], ChatNow)]
    /\ cpc' = [cpc EXCEPT ![h] = IF cpc[h] = "search" THEN "tick1" ELSE "tick2"]
    /\ UNCHANGED <<_STATE_CACHE, session_state, cstate>>

\* state = run_tick_io(state, _DRIVERS): the rest of the tick, on the copy;
\* state is the new dict it returns
TickReturn(h) ==
    /\ cpc[h] \in {"tick1", "tick2"}
    /\ cheap' = Append(cheap, run_tick_io(ccopy[h], ChatDrivers, ChatNow))
    /\ cstate' = [cstate EXCEPT ![h] = Len(cheap) + 1]
    /\ ccopy' = [ccopy EXCEPT ![h] = EmptyMap]
    /\ cpc' = [cpc EXCEPT ![h] = IF cpc[h] = "tick1" THEN "ticked1" ELSE "ticked2"]
    /\ UNCHANGED <<_STATE_CACHE, session_state>>

\* phase 2: the requests are emptied and the answer is put in dialog.final
SetAnswer(h) ==
    /\ cpc[h] = "ticked1"
    /\ cheap' = [cheap EXCEPT ![cstate[h]] = _chat_answer(@, ChatText(h))]
    /\ cpc' = [cpc EXCEPT ![h] = "answer"]
    /\ UNCHANGED <<_STATE_CACHE, session_state, cstate, ccopy>>

\* update_state(req.thread_id, state): the cache entry and the row
UpdateState(h) ==
    /\ cpc[h] = "ticked2"
    /\ _STATE_CACHE' = cstate[h]
    /\ session_state' = cheap[cstate[h]]
    /\ cpc' = [cpc EXCEPT ![h] = "done"]
    /\ UNCHANGED <<cheap, cstate, ccopy>>

---------------------------------------------------------------------------
(* the skill dispatcher of block 7 *)

\* unicodedata.normalize("NFC", s).casefold() on the moves used here
_cf(s) ==
    IF s.kind # "str" THEN ""
    ELSE IF s.val \in {"EXECUTE", "Execute"} THEN "execute" ELSE s.val

\* _make_key(skill_id, params, plan_id): the digest of the three
_make_key(skill_id, params, plan_id) ==
    _hash(Map(("skill_id" :> skill_id) @@ ("params" :> params) @@ ("plan" :> plan_id)))

\* (ops, plan_id, skill_name_hint, must_confirm, block_reason)
_collect_execute_ops(inp) ==
    LET final_move == _get(inp, <<"dialog", "final", "move">>, Str(""))
        reason == Or(Get(inp, <<"dialog", "final", "reason">>), Str(""))
        IsExec(op) == IsMap(op) /\ GetOr(op, "op", Null) = Str("execute_skill")
        turn_ops == _get(inp, <<"dialog", "turn", "ops">>, Lst(<<>>))
        plan_steps == _get(inp, <<"planner", "plan", "steps">>, Lst(<<>>))
        ex_ops == IF turn_ops.kind = "list" /\ turn_ops.val # <<>>
                  THEN SelectSeq(turn_ops.val, IsExec) ELSE SelectSeq(plan_steps.val, IsExec)
        plan_id == Or(Or(Get(inp, <<"planner", "plan", "id">>), Str("")),
                      _get(inp, <<"dialog", "turn", "meta", "plan_id">>, Str("")))
        skill_name_hint ==
            IF ex_ops # <<>> /\ GetOr(ex_ops[1], "skill_name", Null).kind = "str"
            THEN ex_ops[1].val["skill_name"] ELSE Str("")
        must_confirm ==
            ~Falsy(_get(inp, <<"planner", "plan", "guardrails", "must_confirm">>, Bool(FALSE)))
    IN IF ~Falsy(final_move) /\ _cf(final_move) # "execute"
       THEN [ops |-> <<>>, plan_id |-> Str(""), skill_name_hint |-> Str(""),
             must_confirm |-> FALSE, block_reason |-> "not_execute_move"]
       ELSE IF reason \in {Str("must_confirm"), Str("secret_detected")}
       THEN [ops |-> <<>>, plan_id |-> plan_id, skill_name_hint |-> skill_name_hint,
             must_confirm |-> TRUE, block_reason |-> reason.val]
       ELSE [ops |-> ex_ops, plan_id |-> plan_id, skill_name_hint |-> skill_name_hint,
             must_confirm |-> must_confirm, block_reason |-> ""]

b7f1_dispatch(input_json) ==
    LET c == _collect_execute_ops(input_json)
        Skip(reason) ==
            EnvCounts("SKIP", Map("executor" :> Map(("requests" :> Lst(<<>>))
                                                    @@ ("meta" :> Meta("B7F1")))),
                      reason, [ops |-> 0, requests |-> 0])
        named == SelectSeq(c.ops, LAMBDA op :
                    GetOr(op, "skill_id", Null).kind = "str" /\ op.val["skill_id"] # Str(""))
        Req(op) ==
            LET params == IF IsMap(GetOr(op, "params", Null)) THEN op.val["params"] ELSE EmptyMap
                key == _make_key(op.val["skill_id"], params, c.plan_id)
            IN Map(("req_id" :> key) @@ ("skill_id" :> op.val["skill_id"])
                   @@ ("params" :> params) @@ ("timeout_ms" :> Num(30000))
                   @@ ("retries" :> Map(("max" :> Num(2)) @@ ("policy" :> Str("exponential"))
                                        @@ ("backoff_ms" :> Num(1200))))
                   @@ ("idempotency_key" :> key)
                   @@ ("meta" :> Map(("plan_id" :> c.plan_id)
                                     @@ ("skill_name" :>
                                           Or(GetOr(op, "skill_name", c.skill_name_hint), Str(""))))))
    IN IF c.block_reason = "not_execute_move" THEN Skip("not_execute_move")
       ELSE IF c.must_confirm
       THEN Skip(IF c.block_reason # "" THEN c.block_reason ELSE "must_confirm")
       ELSE IF c.ops = <<>> THEN Skip("no_ops")
       ELSE EnvCounts("OK", Map("executor" :> Map(("requests" :> Lst([i \in DOMAIN named |->
                                                                        Req(named[i])]))
                                                  @@ ("meta" :> Meta("B7F1")))),
                      "ok", [ops |-> Len(c.ops), requests |-> Len(named)])

---------------------------------------------------------------------------
(* one stage applied to one input *)

\* what the scheduler is handed: gates with and without each flag, none to
\* three requests, a dialog.final or none
ScheduleInputs ==
    LET Flag(k, v) == IF v = "absent" THEN <<>> ELSE k :> Bool(v = "on")
        Req(i) == Map(("req_id" :> Str(<<"r1", "r2", "r3">>[i])) @@ ("skill_id" :> Str("write")))
        Final(mv) == IF mv = "" THEN <<>>
                     ELSE "dialog" :> Map("final" :> Map(("move" :> Str(mv))
                                                         @@ ("text" :> Str("hi"))))
    IN {Map(("runtime" :> Map("gates" :> Map(
                 Flag("require_confirm", c.rc) @@ Flag("allow_execute", c.ae)
                 @@ Flag("allow_answer", c.aa)
                 @@ ("limits" :> Map("max_inflight" :> Num(c.mi))))))
            @@ ("executor" :> Map("requests" :> Lst([i \in 1..c.n |-> Req(i)])))
            @@ Final(c.mv)) :
           c \in [rc : {"absent", "on", "off"}, ae : {"absent", "on", "off"}, aa : {"on", "off"},
                  n : {0, 1, 3}, mv : {"", "answer", "refuse", "execute"}, mi : {0, 2}]}
       \cup {Map("executor" :> Map("requests" :> Lst(<<Req(1)>>)))}

\* what the dispatcher is handed: a final move or none, a reason or none,
\* ops in the turn or steps in the plan, a must_confirm guardrail or none
DispatchInputs ==
    LET Op(sid) == Map(("op" :> Str("execute_skill")) @@ ("skill_id" :> Str(sid))
                       @@ ("params" :> Map("q" :> Str("x"))))
        Final(mv, rs) ==
            IF mv = "absent" /\ rs = "" THEN <<>>
            ELSE "dialog" :> Map("final" :> Map(
                    (IF mv = "absent" THEN <<>> ELSE "move" :> Str(mv))
                    @@ (IF rs = "" THEN <<>> ELSE "reason" :> Str(rs))))
        Turn(t) == IF t = 0 THEN <<>>
                   ELSE "dialog" :> Map("turn" :> Map("ops" :>
                           Lst(IF t = 1 THEN <<Op("search")>>
                               ELSE <<Map("op" :> Str("say")), Op("search"), Op("write")>>)))
        Plan(p, g) ==
            IF p = 0 /\ ~g THEN <<>>
            ELSE "planner" :> Map("plan" :> Map(
                    (IF p = 0 THEN <<>> ELSE ("id" :> Str("p1")) @@ ("steps" :> Lst(<<Op("ingest")>>)))
                    @@ (IF g THEN "guardrails" :> Map("must_confirm" :> Bool(TRUE)) ELSE <<>>)))
    IN {_deep_merge(Map(Final(c.mv, c.rs) @@ Plan(c.p, c.g)), Map(Turn(c.t))) :
           c \in [mv : {"absent", "", "execute", "EXECUTE", "answer", "confirm"},
                  rs : {"", "must_confirm"}, t : {0, 1, 2}, p : {0, 1}, g : BOOLEAN]}

\* -- the apply optimizer's collapse of storage ops --

\* the optimizer hands on at most this many ops
MAX_APPLY_OPS == 5000

\* op.get("seq") when it is an int, else None
_seq_of(op) == IF GetOr(op, "seq", Null).kind = "int" THEN op.val["seq"] ELSE Null

\* the replacement test of puts and links: the new op has a seq and the old
\* one has none or a lower or equal one, or neither has a seq
_supersedes(s_new, s_old) ==
    \/ s_new # Null /\ (s_old = Null \/ s_new.val >= s_old.val)
    \/ s_old = Null /\ s_new = Null

\* _seq_key(op, 0): the seq, and 10 ** 12 for an op without one, which is
\* above every seq of the model
_seq_key(op) ==
    IF _seq_of(op) = Null THEN [top |-> TRUE, seq |-> 0]
    ELSE [top |-> FALSE, seq |-> _seq_of(op).val]

\* a <= b on the keys of the sort
_key_le(a, b) == b.top \/ (~a.top /\ a.seq <= b.seq)

\* d[sig] = op on a dict kept as the list of its entries: a new sig goes to
\* the end, a known one keeps its place
_seen_set(seen, sig, op) ==
    IF \E i \in DOMAIN seen : seen[i].sig = sig
    THEN [i \in DOMAIN seen |-> IF seen[i].sig = sig THEN [sig |-> sig, op |-> op] ELSE seen[i]]
    ELSE Append(seen, [sig |-> sig, op |-> op])

\* seen.get(sig): the op, None when the dict has none
_seen_get(seen, sig) ==
    IF \E i \in DOMAIN seen : seen[i].sig = sig
    THEN (CHOOSE e \in {seen[i] : i \in DOMAIN seen} : e.sig = sig).op
    ELSE Null

\* the branch of puts and of links: the first op of a sig is kept, a later
\* one replaces it when it supersedes it
_collapse(seen, sig, op) ==
    IF _seen_get(seen, sig) = Null \/ _supersedes(_seq_of(op), _seq_of(_seen_get(seen, sig)))
    THEN _seen_set(seen, sig, op)
    ELSE seen

\* inc_sum[k] = inc_sum.get(k, 0) + int(d)
_inc_add(inc_sum, k, d) ==
    IF \E i \in DOMAIN inc_sum : inc_sum[i].key = k
    THEN [i \in DOMAIN inc_sum |->
            IF inc_sum[i].key = k THEN [key |-> k, sum |-> inc_sum[i].sum + d] ELSE inc_sum[i]]
    ELSE Append(inc_sum, [key |-> k, sum |-> d])

\* one round of the loop over the ops
_opt_op(acc, op) ==
    LET kind == GetOr(op, "op", Absent)
        k == GetOr(op, "key", Null)
        v == GetOr(op, "value", Null)
        d == GetOr(op, "delta", Null)
    IN IF ~IsMap(op) \/ kind = Absent THEN acc
       ELSE IF kind = Str("put") /\ k.kind = "str"
       THEN [acc EXCEPT !.seen_put = _collapse(@, k, op)]
       ELSE IF kind = Str("inc") /\ k.kind = "str" /\ d.kind = "int"
       THEN [acc EXCEPT !.inc_sum = _inc_add(@, k, d.val)]
       ELSE IF kind = Str("link") /\ k.kind = "str" /\ v # Null
       THEN [acc EXCEPT !.seen_link = _collapse(@, <<k, _hash(v)>>, op)]
       ELSE acc

RECURSIVE _opt_loop(_, _)
_opt_loop(acc, ops) ==
    IF ops = <<>> THEN acc ELSE _opt_loop(_opt_op(acc, Head(ops)), Tail(ops))

RECURSIVE _insert_by_seq(_, _)
\* op put into a list sorted by _seq_key, behind the ops of the same key
_insert_by_seq(sorted, op) ==
    IF sorted = <<>> THEN <<op>>
    ELSE IF _key_le(_seq_key(Head(sorted)), _seq_key(op))
    THEN <<Head(sorted)>> \o _insert_by_seq(Tail(sorted), op)
    ELSE <<op>> \o sorted

RECURSIVE _sorted_by_seq(_)
\* sorted(ops, key=_seq_key): stable
_sorted_by_seq(ops) ==
    IF ops = <<>> THEN <<>>
    ELSE _insert_by_seq(_sorted_by_seq(SubSeq(ops, 1, Len(ops) - 1)), ops[Len(ops)])

\* the puts, the links and the incs whose sum is not 0, cut to the limit,
\* and their counts
_opt_result(puts, links, nz) ==
    LET incs == [i \in DOMAIN nz |->
                   Map(("op" :> Str("inc")) @@ ("key" :> nz[i].key)
                       @@ ("delta" :> Num(nz[i].sum)))]
        out == puts \o links \o incs
        n == IF Len(out) > MAX_APPLY_OPS THEN MAX_APPLY_OPS ELSE Len(out)
    IN Map(("out" :> Lst(SubSeq(out, 1, n)))
           @@ ("counts" :> Map(("puts" :> Num(Len(puts))) @@ ("links" :> Num(Len(links)))
                               @@ ("incs" :> Num(Len(incs))))))

\* out, counts = _opt_storage_ops(ops)
_opt_storage_ops(ops) ==
    Once(_opt_loop([seen_put |-> <<>>, inc_sum |-> <<>>, seen_link |-> <<>>], ops),
         LAMBDA acc :
           _opt_result(_sorted_by_seq([i \in DOMAIN acc.seen_put |-> acc.seen_put[i].op]),
                       _sorted_by_seq([i \in DOMAIN acc.seen_link |-> acc.seen_link[i].op]),
                       SelectSeq(acc.inc_sum, LAMBDA e : e.sum # 0)))

\* the longest list of ops
MaxOps == 3

\* op with a seq
Seq_(op, n) == With(op, "seq", Num(n))

\* puts, incs and links on two keys, with and without a seq
StorageOps ==
    LET put(k, v) == Map(("op" :> Str("put")) @@ ("key" :> Str(k)) @@ ("value" :> Str(v)))
        inc(k, d) == Map(("op" :> Str("inc")) @@ ("key" :> Str(k)) @@ ("delta" :> Num(d)))
        link(k, v) == Map(("op" :> Str("link")) @@ ("key" :> Str(k)) @@ ("value" :> Str(v)))
    IN {put("k", v) : v \in {"A", "B"}}
       \cup {Seq_(put("k", v), n) : v \in {"A", "B"}, n \in {1, 2}}
       \cup {put("j", "A"), inc("k", 1), inc("k", 0 - 1), inc("j", 2),
             link("k", "x"), link("k", "y"), Seq_(link("k", "x"), 1)}

\* the lists of ops the optimizer is given
StorageOpsInputs == {Lst(s) : s \in UNION {[1..n -> StorageOps] : n \in 0..MaxOps}}

\* -- the gatekeeper's throttle --

\* what the gatekeeper is handed: a config with or without soft limits of
\* its own, and the latency and index queue metrics, or none
GateInputs ==
    LET Knob(k, v) == IF v = 0 THEN <<>> ELSE k :> Num(v)
        Metric(n, v) == IF v < 0 THEN <<>>
                        ELSE <<Map(("name" :> Str(n)) @@ ("value" :> Num(v)))>>
    IN {Map(("runtime" :> Map("config" :> Map(
                 ("executor" :> Map("timeout_ms" :> Num(30000)))
                 @@ ("guardrails" :> Map(Knob("latency_soft_limit_ms", c.ls)
                                         @@ Knob("index_queue_soft_max", c.qs))))))
            @@ ("observability" :> Map("telemetry" :> Map("metrics" :>
                   Lst(Metric("exec_avg_latency_ms", c.l)
                       \o Metric("index_queue_items", c.q)))))) :
           c \in [ls : {0, 100}, qs : {0, 10},
                  l : {0 - 1, 100, 101, 103, 1500, 1503, 2700, 3900, 3903, 9000},
                  q : {0 - 1, 10, 25, 1000, 1250, 6010, 7000, 9000}]}

StageIdle == fname = "" /\ fin = EmptyMap /\ fout = Absent

InitStage ==
    /\ \/ fname = "b11f3_schedule_runtime" /\ fin \in ScheduleInputs
       \/ fname = "b7f1_dispatch" /\ fin \in DispatchInputs
       \/ fname = "_opt_storage_ops" /\ fin \in StorageOpsInputs
       \/ fname = "b11f2_gatekeeper" /\ fin \in GateInputs
    /\ fout = Absent

\* b11f3_schedule_runtime(input_json)
Schedule ==
    /\ fname = "b11f3_schedule_runtime" /\ fout = Absent
    /\ fout' = b11f3_schedule_runtime(fin)
    /\ UNCHANGED <<fname, fin>>

\* b7f1_dispatch(input_json)
Dispatch ==
    /\ fname = "b7f1_dispatch" /\ fout = Absent
    /\ fout' = b7f1_dispatch(fin)
    /\ UNCHANGED <<fname, fin>>

\* _opt_storage_ops(ops)
OptimizeStorage ==
    /\ fname = "_opt_storage_ops" /\ fout = Absent
    /\ fout' = _opt_storage_ops(fin.val)
    /\ UNCHANGED <<fname, fin>>

\* b11f2_gatekeeper(input_json)
Gatekeeper ==
    /\ fname = "b11f2_gatekeeper" /\ fout = Absent
    /\ fout' = b11f2_gatekeeper(fin)
    /\ UNCHANGED <<fname, fin>>

---------------------------------------------------------------------------
(* a dialog surface passed through the safety filter, and ticks over a state
   with an initiative queue: the caller hands each tick the state the
   previous one returned, the clock having advanced or not *)

\* the ticks run on one state
MaxInitiativeTicks == 2
\* the most the clock advances between two ticks
MaxAdvance == 2

\* the items of initiative.queue: each is due at 2 and carries a text or a
\* req_id of its own
SayItems ==
    {Map(("type" :> Str("say")) @@ ("when_ms" :> Num(2)) @@ ("once" :> Bool(once))
         @@ ("cooldown_ms" :> Num(cd)) @@ ("payload" :> p) @@ ("id" :> Str("s1"))) :
       once \in BOOLEAN, cd \in {0, 2},
       p \in {Map("text" :> Str("hello")),
              Map(("text" :> Str("hello")) @@ ("move" :> Str("ask")))}}
OtherSay ==
    Map(("type" :> Str("say")) @@ ("when_ms" :> Num(2)) @@ ("once" :> Bool(TRUE))
        @@ ("cooldown_ms" :> Num(0)) @@ ("payload" :> Map("text" :> Str("again")))
        @@ ("id" :> Str("s2")))
SkillItems ==
    {Map(("type" :> Str("run_skill")) @@ ("when_ms" :> Num(2)) @@ ("once" :> Bool(once))
         @@ ("cooldown_ms" :> Num(cd))
         @@ ("payload" :> Map("req" :> Map(("req_id" :> Str("k1")) @@ ("skill_id" :> Str("sync")))))
         @@ ("id" :> Str("k1"))) :
       once \in BOOLEAN, cd \in {0, 2}}
InitiativeQueues ==
    {<<>>} \cup {<<it>> : it \in SayItems \cup SkillItems}
    \cup {<<s, k>> : s \in SayItems, k \in SkillItems}
    \cup {<<k, s>> : s \in SayItems, k \in SkillItems}
    \cup {<<s, OtherSay>> : s \in SayItems}

\* the states the ticks start from: a queue, with or without a final turn
\* left by the filter and a pending request; a surface to filter; a new rule
\* of the concept graph to reflect on
InitiativeInputs ==
    LET prior == Map(("move" :> Str("answer")) @@ ("text" :> Str("prior"))
                     @@ ("blocked" :> Bool(FALSE)))
        r0 == Map(("req_id" :> Str("r0")) @@ ("skill_id" :> Str("search")))
        summary == Map("observability" :> Map("telemetry" :> Map("summary" :>
                       Map(("concept_new_rules" :> Num(1))
                           @@ ("reflection_cooldown_ms" :> Num(1))))))
    IN {Map(("initiative" :> Map("queue" :> Lst(q))) @@ d @@ e) :
           q \in InitiativeQueues,
           d \in {<<>>, "dialog" :> Map("final" :> prior)},
           e \in {<<>>, "executor" :> Map("requests" :> Lst(<<r0>>))}}
       \cup {Map(("dialog" :> Map("surface" :> Map(("move" :> mv) @@ ("text" :> t)
                                                    @@ ("language" :> Str("en")))))
                 @@ ("planner" :> Map("plan" :> Map("guardrails" :>
                                      Map("must_confirm" :> Bool(mc)))))
                 @@ ("initiative" :> Map("queue" :> Lst(q)))) :
               mv \in {Str("answer"), Str("execute"), Str("greet"), Null},
               t \in SurfaceTexts, mc \in BOOLEAN,
               q \in {<<>>} \cup {<<s>> : s \in SayItems}}
       \cup {Map(("concept_graph" :> Map("rules" :> Map("rules" :> Lst(<<rule>>))))
                 @@ summary.val) :
               rule \in {Map(("type" :> Str("assoc")) @@ ("u" :> Str("a")) @@ ("v" :> Str("b"))),
                         Map("type" :> Str("other"))}}

InitiativeIdle == ist = EmptyMap /\ ilog = <<>> /\ iwall = 0

InitInitiative == ist \in InitiativeInputs /\ ilog = <<>> /\ iwall = 1

\* the kernel run with the safety filter as its one step, on a state whose
\* surface has not been filtered yet
Filter ==
    /\ ilog = <<>>
    /\ Get(ist, <<"dialog", "surface">>) # Absent
    /\ Get(ist, <<"dialog", "final">>) = Absent
    /\ ist' = b0f1_kernel_step(ist, <<"b6f3_safety_filter">>, iwall).state
    /\ UNCHANGED <<ilog, iwall>>

\* state = run_tick_io(state, drivers)
InitiativeTick ==
    /\ Len(ilog) < MaxInitiativeTicks
    /\ \E now \in iwall..(iwall + MaxAdvance) :
          \E after \in {run_tick_io(ist, CHOOSE d \in Drivers : d.transport /\ d.storage /\ d.skills = {}, now)} :
             /\ ist' = after
             /\ ilog' = Append(ilog, [now |-> now, before |-> ist, after |-> after])
             /\ iwall' = now

---------------------------------------------------------------------------
(* the echo scenario: a state seeded with executor requests is run through a
   tick, dialog.final is set to an answer, and a second tick is run; the
   transport handler is http_dev.emit *)

\* the texts of the answer
EchoTexts == {"{\"echo\":{\"msg\":\"hi\"}}", "T"}

\* the seeded states: a config, one or two requests, with or without an
\* uncertainty above the must-confirm threshold
EchoInputs ==
    LET Req(id) == Map(("req_id" :> Str(id)) @@ ("skill_id" :> Str("echo"))
                       @@ ("params" :> Map("msg" :> Str("hi"))))
    IN {Map(("runtime" :> Map("config" :> Map(
                ("guardrails" :> Map("must_confirm" :> Map("u_threshold" :> Num(40))))
                @@ ("executor" :> Map("parallelism" :> Map("max_inflight" :> Num(mi)))))))
            @@ ("executor" :> Map("requests" :> Lst(reqs)))
            @@ (IF u = 0 THEN <<>>
                ELSE "world_model" :> Map("uncertainty" :> Map("score" :> Num(u))))) :
         mi \in {1, 4}, reqs \in {<<Req("r1")>>, <<Req("r1"), Req("r2")>>}, u \in {0, 50}}

EchoIdle ==
    /\ est = EmptyMap /\ edrv = <<>> /\ eout = <<>> /\ elog = <<>> /\ etext = "" /\ epc = ""

InitEcho ==
    /\ est \in EchoInputs
    /\ edrv \in {d \in Drivers : d.transport /\ d.storage}
    /\ eout = <<>> /\ elog = <<>> /\ etext = "" /\ epc = "seeded"

RECURSIVE _emit_all(_, _)
\* the outbox after the transport frames of a tick were handed to emit
_emit_all(outbox, calls) ==
    IF calls = <<>> THEN outbox
    ELSE _emit_all(IF Head(calls).val["type"] = Str("transport")
                   THEN emit(outbox, Head(calls)) ELSE outbox, Tail(calls))

\* state = run_tick_io(state, drivers)
EchoTick ==
    /\ epc \in {"seeded", "final"}
    /\ \E tr \in {TickTrace(est, edrv, ChatNow)} :
          /\ tr.raised = ""
          /\ est' = tr.final
          /\ eout' = _emit_all(eout, tr.calls)
          /\ elog' = Append(elog, [calls |-> tr.calls,
                                   added |-> SubSeq(_emit_all(eout, tr.calls), Len(eout) + 1,
                                                    Len(_emit_all(eout, tr.calls)))])
    /\ epc' = IF epc = "seeded" THEN "ran" ELSE "done"
    /\ UNCHANGED <<edrv, etext>>

\* state["dialog"] = {"final": {"move": "answer", "text": T}}
SetFinal ==
    /\ epc = "ran"
    /\ \E text \in EchoTexts :
          /\ est' = With(est, "dialog", Map("final" :> Map(("move" :> Str("answer"))
                                                           @@ ("text" :> Str(text)))))
          /\ etext' = text
    /\ epc' = "final"
    /\ UNCHANGED <<edrv, eout, elog>>

\* phase 2 of chat(): the requests are emptied and the answer is set
ChatAnswer ==
    /\ epc = "ran"
    /\ \E text \in EchoTexts :
          /\ est' = _chat_answer(est, text)
          /\ etext' = text
    /\ epc' = "final"
    /\ UNCHANGED <<edrv, eout, elog>>

---------------------------------------------------------------------------
(* the policy route: POST /policy/apply on the state of one session *)

\* requests per behaviour
MaxApplies == 3

\* one change of a request
Change(path, v) ==
    Map(("path" :> Str(path)) @@ ("new_value" :> Num(v)) @@ ("change_type" :> Str("set")))

\* the changes of a request: one valid change, a change without a path, or
\* two changes
PolicyChanges ==
    {<<Change("a", v)>> : v \in {1, 2}}
    \cup {<<Change("b", 2)>>, <<Change("a.b", 2)>>, <<Change("", 1)>>,
          <<Change("a.b", 2), Change("b", 2)>>}

\* the configs a session starts from
PolicyConfigs ==
    {Map("a" :> Num(1)), Map("a" :> Map("b" :> Num(1))),
     Map(("a" :> Num(1)) @@ ("b" :> Num(1)))}

\* ensure_state(thread_id) for a new session, and sessions whose state holds
\* a current policy, with or without the snapshot of the running config
PolicyInputs ==
    {Map("session" :> Map("thread_id" :> Str("t")))}
    \cup {Map(("session" :> Map("thread_id" :> Str("t")))
              @@ ("policy" :> Map("current" :> c))) : c \in PolicyConfigs}
    \cup {Map(("session" :> Map("thread_id" :> Str("t")))
              @@ ("policy" :> Map(("current" :> c) @@ ("current_runtime" :> c)))) :
          c \in PolicyConfigs}

PolicyIdle == pst = EmptyMap /\ plog = <<>> /\ pwall = 0

InitPolicy == pst \in PolicyInputs /\ plog = <<>> /\ pwall = 1

\* state.setdefault("policy", {})["delta"] = delta
_with_delta(s, changes, now) ==
    With(s, "policy",
         With(GetOr(s, "policy", EmptyMap), "delta",
              Map(("changes" :> Lst(changes))
                  @@ ("guards" :> Map(("max_changes" :> Num(100))
                                      @@ ("ttl" :> Map("seconds" :> Num(3600)))))
                  @@ ("meta" :> Map("created_at" :> Iso(now))))))

\* policy_apply(req): the delta is put in the state, the kernel runs the
\* planner, the stager and the activator, and the new state is saved
policy_apply ==
    /\ Len(plog) < MaxApplies
    /\ \E changes \in PolicyChanges, now \in {pwall, pwall + 1} :
         /\ pst' = b0f1_kernel_step(_with_delta(pst, changes, now),
                                    <<"b10f2_plan_policy_apply", "b10f3_stage_policy_apply",
                                      "b11f1_activate_config">>, now).state
         /\ plog' = Append(plog, [before |-> pst, changes |-> changes, now |-> now,
                                  after |-> pst'])
         /\ pwall' = now

---------------------------------------------------------------------------
(* the learning update of the policy delta planner.  Weights are in
   millionths, rewards and the uncertainty in hundredths, the summary's
   figures in ten-thousandths *)

LEARNING_LABELS ==
    <<"direct_answer", "execute_action", "ask_clarification", "acknowledge_only",
      "small_talk", "closing", "refuse_or_safecheck", "other">>

\* the planner looks at the last entries of the error history
TRACE_CONSIDER == 12

Labels == {LEARNING_LABELS[i] : i \in DOMAIN LEARNING_LABELS}

\* round(n / d, ...) of a quotient: the nearest integer
_round(n, d) == (2 * n + d) \div (2 * d)

\* _clip(v, lo, hi)
_clip(v, lo, hi) == IF v < lo THEN lo ELSE IF v > hi THEN hi ELSE v

\* |x|
_abs(x) == IF x < 0 THEN 0 - x ELSE x

\* x.get(k) of a dict or of what stands for one
_dict(x) == IF IsMap(x) THEN x ELSE EmptyMap

\* _collect_learning(inp): every label has a weight, 0.5 when the state has
\* none
_collect_learning(inp) ==
    LET learning == _dict(Get(inp, <<"policy", "learning">>))
        weights == _dict(GetOr(learning, "weights", Null))
        version == _dict(GetOr(learning, "version", Null))
        summary == _dict(GetOr(learning, "summary", Null))
        rollback == _dict(GetOr(learning, "rollback", Null))
    IN Map(("weights" :> Map([l \in Labels |-> GetOr(weights, l, Num(500000))]))
           @@ ("version" :> Map([k \in {"id", "parent_id", "updated_at"} |->
                                    GetOr(version, k, Null)]))
           @@ ("summary" :> Map(("avg_reward" :> GetOr(summary, "avg_reward", Num(0)))
                  @@ ("updates" :> GetOr(summary, "updates", Num(0)))
                  @@ ("confidence" :> GetOr(summary, "confidence", Num(5000)))))
           @@ ("rollback" :> Map(("version" :> GetOr(rollback, "version", Null))
                  @@ ("weights" :> Map([l \in Labels |->
                         GetOr(_dict(GetOr(rollback, "weights", Null)), l, Num(500000))])))))

\* _collect_trace(inp): the last entries of the history that are dicts with
\* a numeric reward
_collect_trace(inp) ==
    LET h == Get(inp, <<"world_model", "trace", "error_history">>)
        history == IF h.kind = "list" THEN h.val ELSE <<>>
        last == SubSeq(history, IF Len(history) > TRACE_CONSIDER
                                THEN Len(history) - TRACE_CONSIDER + 1 ELSE 1,
                       Len(history))
        Entry(item) ==
            Map(("reward" :> item.val["reward"])
                @@ [k \in {"target", "actual", "top_pred", "speech_act"} |->
                       GetOr(item, k, Null)]
                @@ [k \in {"l1", "kl"} |->
                       IF GetOr(item, k, Null).kind = "int" THEN item.val[k] ELSE Num(0)])
        Usable(item) == IsMap(item) /\ GetOr(item, "reward", Null).kind = "int"
        kept == SelectSeq(last, Usable)
    IN [i \in DOMAIN kept |-> Entry(kept[i])]

\* _collect_uncertainty(inp)
_collect_uncertainty(inp) ==
    LET u == Get(inp, <<"world_model", "uncertainty", "score">>)
    IN IF u.kind = "int" THEN u.val ELSE 0

\* updated[label] = _clip(updated[label] + delta, 0.0, 1.5); delta_norm += |delta|
_bump(acc, label, delta) ==
    [acc EXCEPT !.updated = With(@, label, Num(_clip(@.val[label].val + delta, 0, 1500000))),
                !.delta_norm = @ + _abs(delta)]

\* the third update of a round: the top prediction when it missed the target
_reinforce_top(acc, top_pred, target, lr, reward) ==
    IF top_pred # Null /\ ~Falsy(top_pred) /\ top_pred.val \in Labels
       /\ target # Null /\ ~Falsy(target) /\ top_pred # target
    THEN _bump(acc, top_pred.val, 0 - ((lr * (60 - reward)) \div 100))
    ELSE acc

\* the second update of a round: the actual label
_reinforce_actual(acc, actual, lr, reward) ==
    IF actual # Null /\ actual.val \in Labels
    THEN _bump(acc, actual.val, (lr * (reward - 50)) \div 100)
    ELSE acc

\* the first update of a round: the target label
_reinforce_target(acc, target, lr, reward) ==
    IF target # Null /\ target.val \in Labels
    THEN _bump(acc, target.val, (lr * reward) \div 100)
    ELSE acc

\* the value of key k of item when it is a string, else None
_str_of(item, k) == IF GetOr(item, k, Null).kind = "str" THEN item.val[k] ELSE Null

\* one round of _reinforce's loop
_reinforce_item(acc, item, lr) ==
    _reinforce_top(
        _reinforce_actual(
            _reinforce_target([acc EXCEPT !.total_reward = @ + item.val["reward"].val],
                              _str_of(item, "target"), lr, item.val["reward"].val),
            _str_of(item, "actual"), lr, item.val["reward"].val),
        _str_of(item, "top_pred"), _str_of(item, "target"), lr, item.val["reward"].val)

RECURSIVE _reinforce_loop(_, _, _)
_reinforce_loop(acc, trace, lr) ==
    IF trace = <<>> THEN acc
    ELSE _reinforce_loop(_reinforce_item(acc, Head(trace), lr), Tail(trace), lr)

\* updated, summary = _reinforce(weights, trace, uncertainty)
_reinforce(weights, trace, uncertainty) ==
    IF trace = <<>>
    THEN [weights |-> weights,
          summary |-> Map(("avg_reward" :> Num(0)) @@ ("updates" :> Num(0))
                          @@ ("confidence" :> Num(IF 500 > 100 * (100 - uncertainty)
                                                  THEN 500 ELSE 100 * (100 - uncertainty)))
                          @@ ("delta_norm" :> Num(0)))]
    ELSE Once(_reinforce_loop([updated |-> weights, total_reward |-> 0, delta_norm |-> 0],
                              trace, 900 * (200 - uncertainty)),
              LAMBDA acc :
                [weights |-> acc.updated,
                 summary |->
                     Map(("avg_reward" :> Num(_round(100 * acc.total_reward, Len(trace))))
                         @@ ("updates" :> Num(Len(trace)))
                         @@ ("confidence" :>
                                Num(_clip(_round(50 * (100 - uncertainty) * Len(trace)
                                                 + 50 * acc.total_reward, Len(trace)),
                                          500, 9800)))
                         @@ ("delta_norm" :> Num(_round(acc.delta_norm, 100))))])

\* the update written over a learning state that has a version
_learning_update(learning, r, n, now) ==
    Map(("version" :> Map(("id" :> _hash(Map(("parent_id" :> learning.val["version"].val["id"])
                                             @@ ("weights" :> r.weights)
                                             @@ ("summary" :> r.summary)
                                             @@ ("ts" :> Iso(now)))))
                          @@ ("parent_id" :> learning.val["version"].val["id"])
                          @@ ("updated_at" :> Iso(now))))
        @@ ("weights" :> r.weights)
        @@ ("rollback" :> Map(("version" :> learning.val["version"].val["id"])
                              @@ ("weights" :> learning.val["weights"])))
        @@ ("summary" :> r.summary)
        @@ ("delta" :> Map([l \in {k \in Labels :
                                     r.weights.val[k] # learning.val["weights"].val[k]} |->
                              Num(r.weights.val[l].val - learning.val["weights"].val[l].val)]))
        @@ ("trace_used" :> Num(n)))

\* _plan_learning_update(inp)
_plan_learning_update(inp, now) ==
    Once(_collect_learning(inp), LAMBDA learning :
      Once(_collect_trace(inp), LAMBDA trace :
        Once(_reinforce(learning.val["weights"], trace, _collect_uncertainty(inp)), LAMBDA r :
          IF trace = <<>> /\ ~Falsy(learning.val["version"].val["id"])
          THEN Map(("version" :> learning.val["version"])
                   @@ ("weights" :> learning.val["weights"])
                   @@ ("rollback" :> learning.val["rollback"])
                   @@ ("summary" :> r.summary) @@ ("delta" :> EmptyMap))
          ELSE _learning_update(learning, r, Len(trace), now))))

\* updates per behaviour
MaxUpdates == 3
\* the longest error history
MaxTrace == 2

\* the entries of an error history: a rewarded hit, an unrewarded miss, and
\* an entry without a reward
TraceItems ==
    {Map(("reward" :> Num(100)) @@ ("target" :> Str("direct_answer"))
         @@ ("actual" :> Str("direct_answer")) @@ ("top_pred" :> Str("direct_answer"))),
     Map(("reward" :> Num(0)) @@ ("target" :> Str("execute_action"))
         @@ ("actual" :> Str("small_talk")) @@ ("top_pred" :> Str("small_talk"))),
     Map(("target" :> Str("other")) @@ ("actual" :> Str("other")))}

Traces == UNION {[1..n -> TraceItems] : n \in 0..MaxTrace}

\* the uncertainty scores of the world model
Uncertainties == {0, 50}

\* the learning state of a session: none yet, or the one the planner's test
\* starts from
LearningInputs ==
    {EmptyMap,
     Map(("weights" :> Map([l \in Labels |-> Num(500000)]))
         @@ ("version" :> Map(("id" :> Str("v0")) @@ ("parent_id" :> Null)
                              @@ ("updated_at" :> Iso(0))))
         @@ ("rollback" :> Map(("version" :> Null)
                               @@ ("weights" :> Map([l \in Labels |-> Num(500000)]))))
         @@ ("summary" :> Map(("avg_reward" :> Num(0)) @@ ("updates" :> Num(0))
                              @@ ("confidence" :> Num(5000)))))}

LearningIdle == lrn = EmptyMap /\ llog = <<>> /\ lwall = 0

InitLearning == lrn \in LearningInputs /\ llog = <<>> /\ lwall = 1

\* the planner's learning update on the state's learning and an error
\* history; the kernel merges it into policy.learning
LearningUpdate ==
    /\ Len(llog) < MaxUpdates
    /\ \E trace \in Traces, u \in Uncertainties :
         LET inp == Map(("policy" :> Map("learning" :> lrn))
                        @@ ("world_model" :>
                              Map(("trace" :> Map("error_history" :> Lst(trace)))
                                  @@ ("uncertainty" :> Map("score" :> Num(u))))))
             out == _plan_learning_update(inp, lwall)
         IN /\ lrn' = _deep_merge(lrn, out)
            /\ llog' = Append(llog, [before |-> _collect_learning(inp),
                                     history |-> trace,
                                     trace |-> _collect_trace(inp), u |-> u, out |-> out])
    /\ lwall' = lwall + 1

---------------------------------------------------------------------------
(* the ticks of one session: POST /skills appends the calls of the request
   to executor.requests and runs a tick, POST /chat runs two.  Each tick
   reads the system's clock, time.time(), which follows real time and can
   be set to another value between two ticks. *)

\* the largest reading of the clock
MaxClock == 2
\* the most requests a session holds
MaxRequests == 1
\* the ticks the log keeps: the last ones
Window == 2

\* a call of a POST /skills request
SkillCall(id) == Map(("req_id" :> Str(id)) @@ ("skill_id" :> Str("echo")))

\* the calls of a request: none, or one
SkillCalls == {<<>>, <<SkillCall("r1")>>, <<SkillCall("r2")>>}

\* the driver sets of a tick: the skills driver may fail r1
SessionDrivers ==
    {d \in Drivers : d.transport /\ d.storage /\ d.skills \in {{}, {Str("r1")}}}

\* the states a session starts from: its thread_id and a runtime config
SessionStates ==
    {With(SessionStart, "runtime", Map("config" :> Map(
         "executor" :> Map("parallelism" :> Map("max_inflight" :> Num(mi)))))) :
       mi \in {1, 4}}

\* state["executor"]["requests"].extend(calls)
_skills_extend(s, calls) ==
    LET executor == GetOr(s, "executor", EmptyMap)
        reqs == GetOr(executor, "requests", Lst(<<>>)).val
    IN With(s, "executor", With(executor, "requests", Lst(reqs \o calls)))

\* the req_ids of executor.requests
_pending(s) ==
    LET reqs == Or(Get(s, <<"executor", "requests">>), Lst(<<>>)).val
    IN [i \in DOMAIN reqs |-> GetOr(reqs[i], "req_id", Null)]

\* what one tick did: the clock it read, what the handler put into the state
\* before it (the calls of the request, or chat's answer), the requests
\* pending when it began, the action its scheduler left in
\* runtime.schedule, the frames handed to the drivers and whether every
\* reply was ok, and driver.retry.jobs of the state it returned
SessionRecord(state_in, added, tr, now) ==
    [now |-> now,
     added |-> added,
     pending |-> _pending(state_in),
     action |-> Get(tr.s1, <<"runtime", "schedule", "action">>),
     calls |-> tr.calls,
     ok |-> \A i \in DOMAIN tr.replies : GetOr(tr.replies[i], "ok", Null) = Bool(TRUE),
     retry |-> Or(Get(tr.final, <<"driver", "retry", "jobs">>), Lst(<<>>)).val]

\* the log with the record of one more tick
_logged(log, rec) == Append(IF Len(log) < Window THEN log ELSE Tail(log), rec)

\* what the clock can read at a tick: real time has passed, or not yet a
\* millisecond
Readings(clock) == {n \in {clock, clock + 1} : n <= MaxClock}

SessionIdle == sst = EmptyMap /\ slog = <<>> /\ sclock = 0

InitSession == sst \in SessionStates /\ slog = <<>> /\ sclock = 1

\* POST /skills: run_skills() extends executor.requests with the calls of
\* the request and runs one tick
SessionSkills ==
    \E calls \in SkillCalls, drivers \in SessionDrivers, now \in Readings(sclock) :
       /\ Len(_pending(sst)) + Len(calls) <= MaxRequests
       /\ \E tr \in {TickTrace(_skills_extend(sst, calls), drivers, now)} :
             /\ sst' = tr.final
             /\ slog' = _logged(slog, SessionRecord(_skills_extend(sst, calls), calls, tr, now))
       /\ sclock' = now

\* POST /chat: chat() appends its search request and runs a tick, then
\* empties the requests, sets the answer and runs a second tick
SessionChat ==
    \E now1 \in Readings(sclock) : \E now2 \in Readings(now1) :
       /\ Len(_pending(sst)) < MaxRequests
       /\ \E tr1 \in {TickTrace(_chat_search(sst, "T"), ChatDrivers, now1)} :
             \E tr2 \in {TickTrace(_chat_answer(tr1.final, "T"), ChatDrivers, now2)} :
                /\ sst' = tr2.final
                /\ slog' = _logged(_logged(slog,
                                 SessionRecord(_chat_search(sst, "T"),
                                               <<_chat_search(EmptyMap, "T").val["executor"].val["requests"].val[1]>>,
                                               tr1, now1)),
                             SessionRecord(_chat_answer(tr1.final, "T"),
                                           <<_chat_answer(EmptyMap, "T").val["dialog"]>>,
                                           tr2, now2))
       /\ sclock' = now2

\* the system's clock is set: by its administrator, or by its time service
\* stepping it
SetClock ==
    /\ \E n \in 1..MaxClock : n # sclock /\ sclock' = n
    /\ UNCHANGED <<sst, slog>>

---------------------------------------------------------------------------
(* the push channel: ws_push polls the transport outbox for the subscriber
   of one thread_id and forwards what was appended since its last look; the
   ticks of the threads hand their transport frames to http_dev.emit *)

\* the messages the outbox holds at most
MaxOutbox == 3

\* the threads, and the texts of the answers of each
Threads == {"t1", "t2"}
AnswerTexts(thread_id) == IF thread_id = "t1" THEN {"a1", "a2"} ELSE {"b1"}

\* the state of a thread whose final turn is an answer
ThreadState(thread_id, text) ==
    _chat_answer(With(SessionStart, "session", Map("thread_id" :> Str(thread_id))), text)

RECURSIVE _forward(_, _)
\* for item in ob[sent:]: the texts handed to ws.send_text, in order
_forward(items, thread_id) ==
    IF items = <<>> THEN <<>>
    ELSE LET item == Head(items)
             txt == GetOr(item, "text", Null)
         IN IF ~IsMap(item) THEN _forward(Tail(items), thread_id)
            ELSE IF GetOr(item, "thread_id", Null).kind = "str"
                    /\ item.val["thread_id"] # Str(thread_id)
            THEN _forward(Tail(items), thread_id)
            ELSE IF txt.kind = "str" /\ txt.val # ""
            THEN <<txt.val>> \o _forward(Tail(items), thread_id)
            ELSE _forward(Tail(items), thread_id)

PushIdle == wsent = <<>> /\ wgot = <<>> /\ wsaid = <<>>

InitPush ==
    /\ wsent = [t \in Threads |-> 0]
    /\ wgot = [t \in Threads |-> <<>>]
    /\ wsaid = [t \in Threads |-> <<>>]

\* a tick of a thread whose dialog.final is an answer: run_tick_io hands the
\* transport frame to emit
ThreadTick ==
    \E thread_id \in Threads : \E text \in AnswerTexts(thread_id) :
       \E tr \in {TickTrace(ThreadState(thread_id, text), ChatDrivers, ChatNow)} :
          \E outbox \in {_emit_all(_OUTBOX, tr.calls)} :
             /\ Len(outbox) <= MaxOutbox
             /\ _OUTBOX' = outbox
             /\ wsaid' = [wsaid EXCEPT ![thread_id] =
                            @ \o [i \in 1..(Len(outbox) - Len(_OUTBOX)) |->
                                    outbox[Len(_OUTBOX) + i].val["text"].val]]
             /\ UNCHANGED <<wsent, wgot>>

\* one round of ws_push's loop for the subscriber of a thread
Push ==
    \E thread_id \in Threads :
       /\ wsent[thread_id] < Len(_OUTBOX)
       /\ wgot' = [wgot EXCEPT ![thread_id] =
                     @ \o _forward(SubSeq(_OUTBOX, wsent[thread_id] + 1, Len(_OUTBOX)),
                                   thread_id)]
       /\ wsent' = [wsent EXCEPT ![thread_id] = Len(_OUTBOX)]
       /\ UNCHANGED <<_OUTBOX, wsaid>>

---------------------------------------------------------------------------
(* the requests of a session under repeated ticks: POST /skills appends the
   calls of the request, which may be none, and calls run_tick_io; the tick
   returns and its state is saved *)

\* the req_ids of the calls of the skills frames that were handed out
_handed_ids(calls) ==
    UNION {{GetOr(Or(GetOr(calls[i], "calls", Absent), Lst(<<>>)).val[k], "req_id", Null) :
              k \in DOMAIN Or(GetOr(calls[i], "calls", Absent), Lst(<<>>)).val} :
           i \in {j \in DOMAIN calls : calls[j].val["type"] = Str("skills")}}

\* the most requests the queue of the session holds
MaxQueue == 2

DrainIdle == xst = EmptyMap /\ xrun = NoTrace /\ xsent = {}

InitDrain == xst \in SessionStates /\ xrun = NoTrace /\ xsent = {}

\* run_skills up to the return of run_tick_io: the calls are appended to the
\* requests of the cached state, and the tick runs
TickBegin ==
    /\ xrun = NoTrace
    /\ \E calls \in SkillCalls, drivers \in SessionDrivers :
          /\ Len(_pending(xst)) + Len(calls) <= MaxQueue
          /\ xst' = _skills_extend(xst, calls)
          /\ \E tr \in {TickTrace(_skills_extend(xst, calls), drivers, ChatNow)} :
                xrun' = tr
    /\ UNCHANGED xsent

\* run_tick_io returns and update_state saves the state
TickEnd ==
    /\ xrun # NoTrace
    /\ xst' = xrun.final
    /\ xsent' = xsent \cup _handed_ids(xrun.calls)
    /\ xrun' = NoTrace

---------------------------------------------------------------------------
(* an initiative queue under repeated ticks: run_tick_io is called on the
   state, with the clock's reading, and returns the state of the next call *)

\* the states with a queue, with or without a final turn and a request
NudgeStates ==
    {s \in InitiativeInputs :
        "initiative" \in Keys(s) /\ "observability" \notin Keys(s)}

\* the text of the say item that the tick made the final turn, if any
_fired_texts(before, after) ==
    IF /\ Falsy(Or(Get(before, <<"dialog", "final">>), EmptyMap))
       /\ Get(after, <<"dialog", "final", "origin">>) = Str("initiative")
    THEN {Get(after, <<"dialog", "final", "text">>)}
    ELSE {}

NudgeIdle == nst = EmptyMap /\ nrun = NoTrace /\ nfired = {} /\ nwall = 0

InitNudge == nst \in NudgeStates /\ nrun = NoTrace /\ nfired = {} /\ nwall = 1

\* run_tick_io is called
NudgeBegin ==
    /\ nrun = NoTrace
    /\ \E now \in Readings(nwall) :
          /\ \E tr \in {TickTrace(nst, ChatDrivers, now)} : nrun' = tr
          /\ nwall' = now
    /\ UNCHANGED <<nst, nfired>>

\* run_tick_io returns
NudgeEnd ==
    /\ nrun # NoTrace
    /\ nst' = nrun.final
    /\ nfired' = nfired \cup _fired_texts(nst, nrun.final)
    /\ nrun' = NoTrace
    /\ UNCHANGED nwall

---------------------------------------------------------------------------
(* the must-confirm command of the chat socket on the state the policy
   route works on: both load the session's state with ensure_state and save
   it with update_state.  Thresholds are in hundredths. *)

\* _set_mc_config(state, u_threshold, rec_requires_confirm)
_set_mc_config(s, u_threshold, rec_requires_confirm) ==
    LET runtime == GetOr(s, "runtime", EmptyMap)
        config == GetOr(runtime, "config", EmptyMap)
        guardrails == GetOr(config, "guardrails", EmptyMap)
    IN With(s, "runtime",
            With(runtime, "config",
                 With(config, "guardrails",
                      With(guardrails, "must_confirm",
                           Map(("u_threshold" :> Num(u_threshold))
                               @@ ("rec_requires_confirm" :> Bool(rec_requires_confirm)))))))

\* the command /mc-guard-2 of ws_chat: the guard is set to 0.8 and off in
\* the session's state, and _say hands the confirmation to emit
mc_guard ==
    /\ Len(_OUTBOX) < MaxOutbox
    /\ pst' = _set_mc_config(pst, 80, FALSE)
    /\ _OUTBOX' = emit(_OUTBOX, Map(("thread_id" :> pst.val["session"].val["thread_id"])
                                     @@ ("text" :> Str("MC"))))
    /\ UNCHANGED <<plog, pwall>>

---------------------------------------------------------------------------
(* specifications *)

NextMerge == Merge /\ UNCHANGED <<kvars, avars, tvars, rvars, ovars, dvars, cvars, fvars, ivars, evars, pvars, lvars, svars, wvars, xvars, nvars>>
StartMerge == InitMerge /\ KernelIdle /\ AliasIdle /\ TickIdle /\ ReplayIdle /\ RunIdle /\ DriversIdle /\ ChatIdle /\ StageIdle /\ InitiativeIdle /\ EchoIdle /\ PolicyIdle /\ LearningIdle /\ SessionIdle /\ PushIdle /\ DrainIdle /\ NudgeIdle
SpecMerge == StartMerge /\ [][NextMerge]_vars

NextKernel ==
    \/ KCall /\ UNCHANGED <<mvars, avars, tvars, rvars, ovars, dvars, cvars, fvars, ivars, evars, pvars, lvars, svars, wvars, xvars, nvars>>
    \/ KApply /\ UNCHANGED <<mvars, avars, tvars, rvars, ovars, dvars, cvars, fvars, ivars, evars, pvars, lvars, svars, wvars, xvars, nvars>>
    \/ KReturn /\ UNCHANGED <<mvars, avars, tvars, rvars, ovars, dvars, cvars, fvars, ivars, evars, pvars, lvars, svars, wvars, xvars, nvars>>
StartKernel == InitKernel /\ MergeIdle /\ AliasIdle /\ TickIdle /\ ReplayIdle /\ RunIdle /\ DriversIdle /\ ChatIdle /\ StageIdle /\ InitiativeIdle /\ EchoIdle /\ PolicyIdle /\ LearningIdle /\ SessionIdle /\ PushIdle /\ DrainIdle /\ NudgeIdle
SpecKernel == StartKernel /\ [][NextKernel]_vars

NextAlias ==
    \/ AMutate /\ UNCHANGED <<mvars, kvars, tvars, rvars, ovars, dvars, cvars, fvars, ivars, evars, pvars, lvars, svars, wvars, xvars, nvars>>
    \/ ACall /\ UNCHANGED <<mvars, kvars, tvars, rvars, ovars, dvars, cvars, fvars, ivars, evars, pvars, lvars, svars, wvars, xvars, nvars>>
    \/ AReturn /\ UNCHANGED <<mvars, kvars, tvars, rvars, ovars, dvars, cvars, fvars, ivars, evars, pvars, lvars, svars, wvars, xvars, nvars>>
    \/ AFinish /\ UNCHANGED <<mvars, kvars, tvars, rvars, ovars, dvars, cvars, fvars, ivars, evars, pvars, lvars, svars, wvars, xvars, nvars>>
StartAlias == InitAlias /\ MergeIdle /\ KernelIdle /\ TickIdle /\ ReplayIdle /\ RunIdle /\ DriversIdle /\ ChatIdle /\ StageIdle /\ InitiativeIdle /\ EchoIdle /\ PolicyIdle /\ LearningIdle /\ SessionIdle /\ PushIdle /\ DrainIdle /\ NudgeIdle
SpecAlias == StartAlias /\ [][NextAlias]_vars

NextTick == Tick /\ UNCHANGED <<mvars, kvars, avars, rvars, ovars, dvars, cvars, fvars, ivars, evars, pvars, lvars, svars, wvars, xvars, nvars>>
StartTick == InitTick /\ MergeIdle /\ KernelIdle /\ AliasIdle /\ ReplayIdle /\ RunIdle /\ DriversIdle /\ ChatIdle /\ StageIdle /\ InitiativeIdle /\ EchoIdle /\ PolicyIdle /\ LearningIdle /\ SessionIdle /\ PushIdle /\ DrainIdle /\ NudgeIdle
SpecTick == StartTick /\ [][NextTick]_vars

NextReplay ==
    \/ RKernel /\ UNCHANGED <<mvars, kvars, avars, tvars, ovars, dvars, cvars, fvars, ivars, evars, pvars, lvars, svars, wvars, xvars, nvars>>
    \/ RTick /\ UNCHANGED <<mvars, kvars, avars, tvars, ovars, dvars, cvars, fvars, ivars, evars, pvars, lvars, svars, wvars, xvars, nvars>>
StartReplay == InitReplay /\ MergeIdle /\ KernelIdle /\ AliasIdle /\ TickIdle /\ RunIdle /\ DriversIdle /\ ChatIdle /\ StageIdle /\ InitiativeIdle /\ EchoIdle /\ PolicyIdle /\ LearningIdle /\ SessionIdle /\ PushIdle /\ DrainIdle /\ NudgeIdle
SpecReplay == StartReplay /\ [][NextReplay]_vars

NextRun == Run /\ UNCHANGED <<mvars, kvars, avars, tvars, rvars, dvars, cvars, fvars, ivars, evars, pvars, lvars, svars, wvars, xvars, nvars>>
StartRun == InitRun /\ MergeIdle /\ KernelIdle /\ AliasIdle /\ TickIdle /\ ReplayIdle /\ DriversIdle /\ ChatIdle /\ StageIdle /\ InitiativeIdle /\ EchoIdle /\ PolicyIdle /\ LearningIdle /\ SessionIdle /\ PushIdle /\ DrainIdle /\ NudgeIdle
SpecRun == StartRun /\ [][NextRun]_vars

NextDrivers ==
    \/ Emit /\ UNCHANGED <<mvars, kvars, avars, tvars, rvars, ovars, cvars, fvars, ivars, evars, pvars, lvars, svars, wvars, xvars, nvars>>
    \/ Execute /\ UNCHANGED <<mvars, kvars, avars, tvars, rvars, ovars, cvars, fvars, ivars, evars, pvars, lvars, svars, wvars, xvars, nvars>>
    \/ ApplyIndex /\ UNCHANGED <<mvars, kvars, avars, tvars, rvars, ovars, cvars, fvars, ivars, evars, pvars, lvars, svars, wvars, xvars, nvars>>
    \/ SleepMs /\ UNCHANGED <<mvars, kvars, avars, tvars, rvars, ovars, cvars, fvars, ivars, evars, pvars, lvars, svars, wvars, xvars, nvars>>
StartDrivers == InitDrivers /\ MergeIdle /\ KernelIdle /\ AliasIdle /\ TickIdle /\ ReplayIdle /\ RunIdle /\ ChatIdle /\ StageIdle /\ InitiativeIdle /\ EchoIdle /\ PolicyIdle /\ LearningIdle /\ SessionIdle /\ PushIdle /\ DrainIdle /\ NudgeIdle
SpecDrivers == StartDrivers /\ [][NextDrivers]_vars

NextChat ==
    \E h \in Handlers :
        \/ EnsureState(h) /\ UNCHANGED <<mvars, kvars, avars, tvars, rvars, ovars, dvars, fvars, ivars, evars, pvars, lvars, svars, wvars, xvars, nvars>>
        \/ AppendSearch(h) /\ UNCHANGED <<mvars, kvars, avars, tvars, rvars, ovars, dvars, fvars, ivars, evars, pvars, lvars, svars, wvars, xvars, nvars>>
        \/ TickEnter(h) /\ UNCHANGED <<mvars, kvars, avars, tvars, rvars, ovars, dvars, fvars, ivars, evars, pvars, lvars, svars, wvars, xvars, nvars>>
        \/ TickReturn(h) /\ UNCHANGED <<mvars, kvars, avars, tvars, rvars, ovars, dvars, fvars, ivars, evars, pvars, lvars, svars, wvars, xvars, nvars>>
        \/ SetAnswer(h) /\ UNCHANGED <<mvars, kvars, avars, tvars, rvars, ovars, dvars, fvars, ivars, evars, pvars, lvars, svars, wvars, xvars, nvars>>
        \/ UpdateState(h) /\ UNCHANGED <<mvars, kvars, avars, tvars, rvars, ovars, dvars, fvars, ivars, evars, pvars, lvars, svars, wvars, xvars, nvars>>
StartChat == InitChat /\ MergeIdle /\ KernelIdle /\ AliasIdle /\ TickIdle /\ ReplayIdle /\ RunIdle /\ DriversIdle /\ StageIdle /\ InitiativeIdle /\ EchoIdle /\ PolicyIdle /\ LearningIdle /\ SessionIdle /\ PushIdle /\ DrainIdle /\ NudgeIdle
SpecChat == StartChat /\ [][NextChat]_vars

NextStage ==
    \/ Schedule /\ UNCHANGED <<mvars, kvars, avars, tvars, rvars, ovars, dvars, cvars, ivars, evars, pvars, lvars, svars, wvars, xvars, nvars>>
    \/ Dispatch /\ UNCHANGED <<mvars, kvars, avars, tvars, rvars, ovars, dvars, cvars, ivars, evars, pvars, lvars, svars, wvars, xvars, nvars>>
    \/ OptimizeStorage /\ UNCHANGED <<mvars, kvars, avars, tvars, rvars, ovars, dvars, cvars, ivars, evars, pvars, lvars, svars, wvars, xvars, nvars>>
    \/ Gatekeeper /\ UNCHANGED <<mvars, kvars, avars, tvars, rvars, ovars, dvars, cvars, ivars, evars, pvars, lvars, svars, wvars, xvars, nvars>>
StartStage == InitStage /\ MergeIdle /\ KernelIdle /\ AliasIdle /\ TickIdle /\ ReplayIdle /\ RunIdle /\ DriversIdle /\ ChatIdle /\ InitiativeIdle /\ EchoIdle /\ PolicyIdle /\ LearningIdle /\ SessionIdle /\ PushIdle /\ DrainIdle /\ NudgeIdle
SpecStage == StartStage /\ [][NextStage]_vars

NextInitiative ==
    \/ Filter /\ UNCHANGED <<mvars, kvars, avars, tvars, rvars, ovars, dvars, cvars, fvars, evars, pvars, lvars, svars, wvars, xvars, nvars>>
    \/ InitiativeTick /\ UNCHANGED <<mvars, kvars, avars, tvars, rvars, ovars, dvars, cvars, fvars, evars, pvars, lvars, svars, wvars, xvars, nvars>>
StartInitiative == InitInitiative /\ MergeIdle /\ KernelIdle /\ AliasIdle /\ TickIdle /\ ReplayIdle /\ RunIdle /\ DriversIdle /\ ChatIdle /\ StageIdle /\ EchoIdle /\ PolicyIdle /\ LearningIdle /\ SessionIdle /\ PushIdle /\ DrainIdle /\ NudgeIdle
SpecInitiative == StartInitiative /\ [][NextInitiative]_vars

NextEcho ==
    \/ EchoTick /\ UNCHANGED <<mvars, kvars, avars, tvars, rvars, ovars, dvars, cvars, fvars, ivars, pvars, lvars, svars, wvars, xvars, nvars>>
    \/ SetFinal /\ UNCHANGED <<mvars, kvars, avars, tvars, rvars, ovars, dvars, cvars, fvars, ivars, pvars, lvars, svars, wvars, xvars, nvars>>
    \/ ChatAnswer /\ UNCHANGED <<mvars, kvars, avars, tvars, rvars, ovars, dvars, cvars, fvars, ivars, pvars, lvars, svars, wvars, xvars, nvars>>
StartEcho == InitEcho /\ MergeIdle /\ KernelIdle /\ AliasIdle /\ TickIdle /\ ReplayIdle /\ RunIdle /\ DriversIdle /\ ChatIdle /\ StageIdle /\ InitiativeIdle /\ PolicyIdle /\ LearningIdle /\ SessionIdle /\ PushIdle /\ DrainIdle /\ NudgeIdle
SpecEcho == StartEcho /\ [][NextEcho]_vars

NextPolicy ==
    \/ policy_apply /\ UNCHANGED <<mvars, kvars, avars, tvars, rvars, ovars, dvars, cvars, fvars, ivars, evars, lvars, svars, wvars, xvars, nvars>>
StartPolicy == InitPolicy /\ MergeIdle /\ KernelIdle /\ AliasIdle /\ TickIdle /\ ReplayIdle /\ RunIdle /\ DriversIdle /\ ChatIdle /\ StageIdle /\ InitiativeIdle /\ EchoIdle /\ LearningIdle /\ SessionIdle /\ PushIdle /\ DrainIdle /\ NudgeIdle
SpecPolicy == StartPolicy /\ [][NextPolicy]_vars

NextGuard ==
    \/ policy_apply /\ UNCHANGED <<mvars, kvars, avars, tvars, rvars, ovars, dvars, cvars, fvars, ivars, evars, lvars, svars, wvars, xvars, nvars>>
    \/ mc_guard /\ UNCHANGED <<_INDEX, kv, fts, handed>> /\ UNCHANGED <<mvars, kvars, avars, tvars, rvars, ovars, cvars, fvars, ivars, evars, lvars, svars, wvars, xvars, nvars>>
SpecGuard == StartPolicy /\ [][NextGuard]_vars

NextLearning ==
    \/ LearningUpdate /\ UNCHANGED <<mvars, kvars, avars, tvars, rvars, ovars, dvars, cvars, fvars, ivars, evars, pvars, svars, wvars, xvars, nvars>>
StartLearning == InitLearning /\ MergeIdle /\ KernelIdle /\ AliasIdle /\ TickIdle /\ ReplayIdle /\ RunIdle /\ DriversIdle /\ ChatIdle /\ StageIdle /\ InitiativeIdle /\ EchoIdle /\ PolicyIdle /\ SessionIdle /\ PushIdle /\ DrainIdle /\ NudgeIdle
SpecLearning == StartLearning /\ [][NextLearning]_vars

NextSession ==
    \/ SessionSkills /\ UNCHANGED <<mvars, kvars, avars, tvars, rvars, ovars, dvars, cvars, fvars, ivars, evars, pvars, lvars, wvars, xvars, nvars>>
    \/ SessionChat /\ UNCHANGED <<mvars, kvars, avars, tvars, rvars, ovars, dvars, cvars, fvars, ivars, evars, pvars, lvars, wvars, xvars, nvars>>
    \/ SetClock /\ UNCHANGED <<mvars, kvars, avars, tvars, rvars, ovars, dvars, cvars, fvars, ivars, evars, pvars, lvars, wvars, xvars, nvars>>
StartSession == InitSession /\ MergeIdle /\ KernelIdle /\ AliasIdle /\ TickIdle /\ ReplayIdle /\ RunIdle /\ DriversIdle /\ ChatIdle /\ StageIdle /\ InitiativeIdle /\ EchoIdle /\ PolicyIdle /\ LearningIdle /\ PushIdle /\ DrainIdle /\ NudgeIdle
SpecSession == StartSession /\ [][NextSession]_vars

NextDrain ==
    \/ TickBegin /\ UNCHANGED <<mvars, kvars, avars, tvars, rvars, ovars, dvars, cvars, fvars, ivars, evars, pvars, lvars, svars, wvars, nvars>>
    \/ TickEnd /\ UNCHANGED <<mvars, kvars, avars, tvars, rvars, ovars, dvars, cvars, fvars, ivars, evars, pvars, lvars, svars, wvars, nvars>>
StartDrain == InitDrain /\ MergeIdle /\ KernelIdle /\ AliasIdle /\ TickIdle /\ ReplayIdle /\ RunIdle /\ DriversIdle /\ ChatIdle /\ StageIdle /\ InitiativeIdle /\ EchoIdle /\ PolicyIdle /\ LearningIdle /\ SessionIdle /\ PushIdle /\ NudgeIdle
\* a tick that was begun returns
SpecDrainFair ==
    StartDrain /\ [][NextDrain]_vars
    /\ WF_vars(TickEnd /\ UNCHANGED <<mvars, kvars, avars, tvars, rvars, ovars, dvars, cvars, fvars, ivars, evars, pvars, lvars, svars, wvars, nvars>>)

NextNudge ==
    \/ NudgeBegin /\ UNCHANGED <<mvars, kvars, avars, tvars, rvars, ovars, dvars, cvars, fvars, ivars, evars, pvars, lvars, svars, wvars, xvars>>
    \/ NudgeEnd /\ UNCHANGED <<mvars, kvars, avars, tvars, rvars, ovars, dvars, cvars, fvars, ivars, evars, pvars, lvars, svars, wvars, xvars>>
StartNudge == InitNudge /\ MergeIdle /\ KernelIdle /\ AliasIdle /\ TickIdle /\ ReplayIdle /\ RunIdle /\ DriversIdle /\ ChatIdle /\ StageIdle /\ InitiativeIdle /\ EchoIdle /\ PolicyIdle /\ LearningIdle /\ SessionIdle /\ PushIdle /\ DrainIdle
\* a tick that was begun returns
SpecNudgeFair ==
    StartNudge /\ [][NextNudge]_vars
    /\ WF_vars(NudgeEnd /\ UNCHANGED <<mvars, kvars, avars, tvars, rvars, ovars, dvars, cvars, fvars, ivars, evars, pvars, lvars, svars, wvars, xvars>>)

NextPush ==
    \/ ThreadTick /\ UNCHANGED <<_INDEX, kv, fts, handed>> /\ UNCHANGED <<mvars, kvars, avars, tvars, rvars, ovars, cvars, fvars, ivars, evars, pvars, lvars, svars, xvars, nvars>>
    \/ Push /\ UNCHANGED <<_INDEX, kv, fts, handed>> /\ UNCHANGED <<mvars, kvars, avars, tvars, rvars, ovars, cvars, fvars, ivars, evars, pvars, lvars, svars, xvars, nvars>>
StartPush == InitPush /\ MergeIdle /\ KernelIdle /\ AliasIdle /\ TickIdle /\ ReplayIdle /\ RunIdle /\ DriversIdle /\ ChatIdle /\ StageIdle /\ InitiativeIdle /\ EchoIdle /\ PolicyIdle /\ LearningIdle /\ SessionIdle /\ DrainIdle /\ NudgeIdle
SpecPush == StartPush /\ [][NextPush]_vars

---------------------------------------------------------------------------
(* properties of _deep_merge *)

\* the longest path the merged trees are compared at
MergeDepth == 3
MergePaths == UNION {[1..n -> {"a", "b", "c", "d", "e"}] : n \in 0..MergeDepth}

\* both trees have a map at path p
BothMaps(p) == IsMap(Get(dst0, p)) /\ IsMap(Get(src, p))

\* the length of the shortest prefix of p where the two trees do not both
\* have a map, 0 when they do all along p
Fork(p) ==
    LET off == {i \in 1..Len(p) : ~BothMaps(SubSeq(p, 1, i))}
    IN IF off = {} THEN 0 ELSE CHOOSE i \in off : \A j \in off : i <= j

\* C4: after _deep_merge(dst, src), at every path: where both trees have maps
\* all the way the result is a map with the union of their keys (disjoint
\* keys are united, maps on both sides are merged recursively); from the
\* first place where they do not, the result is the stage's value when the
\* stage wrote there (a scalar or list replaces, whatever was there) and the
\* state's old subtree when it did not (unwritten subtrees are preserved).
C4_DeepMerge ==
    mpc = "out" =>
        \A p \in MergePaths :
            LET i == Fork(p)
            IN IF i = 0
               THEN /\ IsMap(Get(dst, p))
                    /\ Keys(Get(dst, p)) = Keys(Get(dst0, p)) \cup Keys(Get(src, p))
               ELSE IF Get(src, SubSeq(p, 1, i)) = Absent
               THEN Get(dst, p) = Get(dst0, p)
               ELSE Get(dst, p) = Get(src, p)

\* a merge that unites keys (b), recurses (a, a.d), replaces (a.d.e) and
\* preserves (a.c)
C4_Witness ==
    /\ mpc = "out"
    /\ dst0 = Map("a" :> Map(("c" :> Str("x")) @@ ("d" :> Map("e" :> Str("x")))))
    /\ src = Map(("a" :> Map("d" :> Map("e" :> Str("y")))) @@ ("b" :> Str("x")))
    /\ dst = Map(("a" :> Map(("c" :> Str("x")) @@ ("d" :> Map("e" :> Str("y")))))
                 @@ ("b" :> Str("x")))

---------------------------------------------------------------------------
(* properties of b0f1_kernel_step *)

\* the stage called last returned an envelope whose status reads OK
ReturnedOK(beh) ==
    /\ beh.tag = "ret" /\ IsMap(beh.out)
    /\ Upper(GetOr(beh.out, "status", Str("OK"))) = "OK"

\* C1: a stage that raises does not abort the composer: the exception does
\* not leave the composer, an error {step, error} naming the stage is
\* recorded and the state is left alone; the loop goes on to the next
\* stage, every stage of the order has been processed when the composer
\* returns, and a stage that returns OK after an error was recorded is
\* listed in ran and has what it returned merged into the state.
C1_RaiseDoesNotAbort ==
    [][ /\ kph' # "aborted"
        /\ (kph = "apply" /\ kbeh.tag = "raise") =>
              /\ errors' = Append(errors,
                    [step |-> steps[kpc],
                     error |-> Str(steps[kpc] \o ": " \o kbeh.exc)])
              /\ state' = state /\ ran' = ran /\ skipped' = skipped
              /\ kpc' = kpc + 1 /\ kph' = "call"
        /\ (kph = "apply" /\ errors # <<>> /\ ReturnedOK(kbeh)) =>
              /\ ran' = Append(ran, steps[kpc])
              /\ Covers(state', Without(kbeh.out, {"status", "diag"}))
              /\ errors' = errors
        /\ kph' = "done" =>
              /\ Len(ran') + Len(skipped') + Len(errors') = Len(steps')
              /\ kret'.noema.kernel.errors = errors' /\ kret'.state = state'
      ]_vars

\* the first stage raised, the second returned OK with b.c = y, and the
\* composer returned FAIL with the error recorded and b.c = y in the state
C1_Witness ==
    /\ kph = "done" /\ Len(steps) >= 2
    /\ kret.status = "FAIL"
    /\ kret.noema.kernel.errors =
          <<[step |-> "s1", error |-> Str("s1: ValueError: bad")]>>
    /\ kret.noema.kernel.ran = <<"s2">>
    /\ Get(kret.state, <<"b", "c">>) = Str("y")

\* C2: a stage that returns a status other than OK or SKIP is treated as
\* FAIL: an error is recorded, the stage is not listed in ran and nothing
\* is merged; and the composer's status is OK exactly when no stage raised
\* and none returned such a status.
C2_OtherStatusIsFail ==
    [][ /\ (kph = "apply" /\ NotOkNorSkip(kbeh)) =>
              /\ Len(errors') = Len(errors) + 1
              /\ ran' = ran
              /\ state' = state
        /\ kph' = "done" => (kret'.status = "OK" <=> ~kbad')
      ]_vars

\* C3: on OK exactly the top-level keys other than status and diag are
\* merged: the state never acquires a top-level status or diag key, and an
\* OK envelope with no other keys leaves the state unchanged.
C3_StatusDiagNotMerged ==
    [][ (kph = "apply" /\ ReturnedOK(kbeh)) =>
            /\ state' = _deep_merge(state, Without(kbeh.out, {"status", "diag"}))
            /\ Keys(state') \cap {"status", "diag"} = {}
            /\ (Keys(kbeh.out) \subseteq {"status", "diag"} => state' = state)
      ]_vars

---------------------------------------------------------------------------
(* properties of the composer's copies *)

\* C5: nothing a stage does to its argument, during its call or afterwards
\* through the references it kept to its argument or to the dict it
\* returned, is seen by the composer: the state's value changes only in the
\* step that merges a returned envelope, a stage's argument has the value of
\* the state at the call, and no dict of the state can be reached from
\* what the stages hold.
C5_StagesCannotReachState ==
    [][ /\ ~(apc = "called" /\ apc' = "loop") =>
              TreeOf(heap', sroot') = TreeOf(heap, sroot)
        /\ (apc = "loop" /\ apc' = "called") =>
              TreeOf(heap', arg') = TreeOf(heap, sroot)
        /\ Reach(heap', held') \cap Reach(heap', {sroot'}) = {}
      ]_vars

\* the last stage returned a new dict {p: {q: x}}, which was merged, and
\* emptied the nested dict afterwards; the composer returned a state that
\* still has p.q = x
C5_Witness ==
    /\ apc = "done" /\ late
    /\ aout \in held /\ aout # arg
    /\ TreeOf(heap, aout) = Map("p" :> EmptyMap)
    /\ Get(StateTree, <<"p", "q">>) = Str("x")

---------------------------------------------------------------------------
(* properties of replays *)

\* C6: invoking the composer twice on the same input, with the registry and
\* the order of the tick, yields the same result: the same final state and
\* the same report.
C6_ComposerDeterministic == \A i, j \in DOMAIN rres : rres[i] = rres[j]

\* C7: invoking the tick twice from the same input state, with the same
\* deterministic driver stub, yields the same final state both times.
C7_TickReplayIdempotent == \A i, j \in DOMAIN tres : tres[i] = tres[j]

---------------------------------------------------------------------------
(* properties of retries over a sequence of ticks *)

\* the number of ticks so far whose planner emitted a retry for job id j
Emitted(j) == Cardinality({i \in DOMAIN tlog : \E b \in tlog[i].bumped : b.jid = j})

\* max_attempts of a subsystem under the state's policy
RetryCap(kind) ==
    IntOf(Or(Get(ts, <<"policy", "retry", kind>>), EmptyMap), "max_attempts",
          DEFAULTS[kind].max_attempts)

\* C8: over a sequence of ticks, the retry planner emits retries for a job id
\* at most max_attempts times (the cap of the job's subsystem).
C8_RetryBudget ==
    \A i \in DOMAIN tlog : \A b \in tlog[i].bumped : Emitted(b.jid) <= RetryCap(b.kind)

\* C9: a tick whose planner emits a retry for a job id leaves
\* driver.history.attempts[job_id] one higher than it found it, and the next
\* tick starts from that count.
C9_AttemptsRecorded ==
    LET Count(attempts, j) == IF j \in DOMAIN attempts THEN attempts[j] ELSE 0
    IN \A i \in DOMAIN tlog : \A b \in tlog[i].bumped :
          /\ Count(tlog[i].after, b.jid) = Count(tlog[i].before, b.jid) + 1
          /\ i + 1 \in DOMAIN tlog =>
                Count(tlog[i + 1].before, b.jid) = Count(tlog[i].before, b.jid) + 1

\* frame fr carries what job asks for: the same messages, the same requests,
\* or the same storage operations
Carries(fr, job) ==
    CASE job.val["type"] = Str("transport.emit") ->
           /\ fr.val["type"] = Str("transport")
           /\ fr.val["messages"] = job.val["items"]
      [] job.val["type"] = Str("skills.execute") ->
           /\ fr.val["type"] = Str("skills")
           /\ [c \in DOMAIN fr.val["calls"].val |-> fr.val["calls"].val[c].val["req_id"]]
                = [r \in DOMAIN job.val["batch"].val |-> job.val["batch"].val[r].val["req_id"]]
      [] job.val["type"] = Str("storage.apply_index") ->
           /\ fr.val["type"] = Str("storage")
           /\ fr.val["apply"] = job.val["apply_ops"]
           /\ fr.val["index"] = job.val["index_queue"]
      [] OTHER -> FALSE

\* C10: every retry job the planner returns on a tick is dispatched to its
\* driver on the next tick, and within a tick no subsystem is dispatched to
\* twice.
C10_RetryDispatchedNextTick ==
    \A i \in DOMAIN tlog :
        /\ i + 1 \in DOMAIN tlog =>
              \A k \in DOMAIN tlog[i].retry :
                  \E f \in DOMAIN tlog[i + 1].sent :
                      Carries(tlog[i + 1].sent[f], tlog[i].retry[k])
        /\ \A f, g \in DOMAIN tlog[i].sent :
              tlog[i].sent[f].val["type"] = tlog[i].sent[g].val["type"] => f = g

---------------------------------------------------------------------------
(* properties of one tick *)

\* the jobs the first pass of the tick built
RunJobs == Or(Get(otr.s1, <<"driver", "jobs">>), Lst(<<>>)).val

\* the retry jobs the planner of the tick returned
RunRetries == Or(Get(otr.planner, <<"driver", "retry", "jobs">>), Lst(<<>>)).val

\* C11: every retry job the planner emits, for every subsystem, carries the
\* idempotency_key of the job of its type that the tick sent (the job it
\* retries), and that key is a digest.
C11_RetryKeepsKey ==
    opc = "out" =>
        \A k \in DOMAIN RunRetries :
            \E j \in DOMAIN RunJobs :
                /\ RunJobs[j].val["type"] = RunRetries[k].val["type"]
                /\ RunJobs[j].val["idempotency_key"].kind = "sha1"
                /\ RunRetries[k].val["idempotency_key"] = RunJobs[j].val["idempotency_key"]

\* a tick whose planner returned a skills retry and a storage retry
C11_Witness ==
    /\ opc = "out"
    /\ Len(RunRetries) = 2
    /\ RunRetries[1].val["type"] = Str("skills.execute")
    /\ RunRetries[2].val["type"] = Str("storage.apply_index")
    /\ \E j \in DOMAIN RunJobs :
          /\ RunJobs[j].val["type"] = Str("skills.execute")
          /\ RunRetries[1].val["batch"] # RunJobs[j].val["batch"]

\* the retry jobs of the tick for the subsystem t
RetriesFor(t) == SelectSeq(RunRetries, LAMBDA j : j.val["type"] = Str(t))

\* the replies of the tick from the subsystem t
RepliesFrom(t) ==
    SelectSeq(otr.replies, LAMBDA r : IsMap(r) /\ GetOr(r, "type", Null) = Str(t))

\* the elements of the list xs that the list done does not hold
Remaining(xs, done) == SelectSeq(xs, LAMBDA x : \A i \in DOMAIN done : done[i] # x)

\* the skills retry holds exactly the calls whose result was not ok, and
\* there is none when every call was ok
SkillsRetryExact ==
    \A i \in DOMAIN RepliesFrom("skills") :
        LET calls == RepliesFrom("skills")[i].val["calls"].val
            failed == {calls[k].val["req_id"] : k \in {n \in DOMAIN calls : ~calls[n].val["ok"].val}}
        IN IF failed = {} THEN RetriesFor("skills.execute") = <<>>
           ELSE /\ Len(RetriesFor("skills.execute")) = 1
                /\ LET batch == RetriesFor("skills.execute")[1].val["batch"].val
                   IN {batch[k].val["req_id"] : k \in DOMAIN batch} = failed

\* there is a transport retry exactly when the transport reply was not ok
TransportRetryExact ==
    \A i \in DOMAIN RepliesFrom("transport") :
        RepliesFrom("transport")[i].val["ok"].val <=> RetriesFor("transport.emit") = <<>>

\* the storage retry holds the ops the reply does not report applied and the
\* items it does not report indexed, and there is none when the reply was ok
StorageRetryExact ==
    \A i \in DOMAIN RepliesFrom("storage") :
        LET rep == RepliesFrom("storage")[i]
            job == RunJobs[CHOOSE j \in DOMAIN RunJobs :
                              RunJobs[j].val["type"] = Str("storage.apply_index")]
            ops == Remaining(job.val["apply_ops"].val, Get(rep, <<"apply", "ops">>).val)
            items == Remaining(job.val["index_queue"].val, Get(rep, <<"index", "queue">>).val)
        IN IF rep.val["ok"].val THEN RetriesFor("storage.apply_index") = <<>>
           ELSE ops # <<>> \/ items # <<>> =>
                  /\ Len(RetriesFor("storage.apply_index")) = 1
                  /\ RetriesFor("storage.apply_index")[1].val["apply_ops"].val = ops
                  /\ RetriesFor("storage.apply_index")[1].val["index_queue"].val = items

\* C12: after a tick whose replies contain failures the retry jobs are
\* exactly the retries of the failed units: a skills retry with only the calls
\* that were not ok, a storage retry with only the part that failed (the index
\* items alone when the ops were applied and the index was not), and no retry
\* for a subsystem whose reply was ok.
C12_RetryExactlyFailedUnits ==
    opc = "out" /\ otr.raised = "" =>
        SkillsRetryExact /\ TransportRetryExact /\ StorageRetryExact

\* the place of a frame's type in the order the protocol builder emits
FrameRank(fr) ==
    CASE fr.val["type"] = Str("transport") -> 1
      [] fr.val["type"] = Str("skills") -> 2
      [] fr.val["type"] = Str("storage") -> 3
      [] fr.val["type"] = Str("timer") -> 4

C15_TickAlwaysReturns ==
    opc = "out" =>
        /\ otr.raised = ""
        /\ otr.final # Absent
        /\ \A k \in Keys(otr.s1) \ {"status", "diag", "noema"} :
              Covers(Map(k :> GetOr(otr.final, k, Absent)), Map(k :> otr.s1.val[k]))

\* the tick was handed requests and an uncertainty score at or above
\* guardrails.must_confirm.u_threshold
MustConfirm ==
    /\ Get(oin, <<"world_model", "uncertainty", "score">>).kind = "int"
    /\ Get(oin, <<"runtime", "config", "guardrails", "must_confirm", "u_threshold">>).kind = "int"
    /\ Get(oin, <<"world_model", "uncertainty", "score">>).val
          >= Get(oin, <<"runtime", "config", "guardrails", "must_confirm", "u_threshold">>).val
    /\ Or(Get(oin, <<"executor", "requests">>), Lst(<<>>)).val # <<>>

\* no frame of the tick went to the skills driver
NoSkillsCall == \A i \in DOMAIN otr.calls : otr.calls[i].val["type"] # Str("skills")

\* C18: a tick handed pending requests and an uncertainty score at or above
\* the must_confirm threshold sends no skills frame, and the state it returns
\* has dialog.final.move = confirm and no dialog.final.blocked.
C18_ConfirmNotExecute ==
    opc = "out" /\ otr.raised = "" /\ MustConfirm =>
        /\ NoSkillsCall
        /\ Get(otr.final, <<"dialog", "final", "move">>) = Str("confirm")
        /\ Get(otr.final, <<"dialog", "final", "blocked">>) = Absent

\* the req_ids of the requests the tick was handed, in queue order
PendingIds ==
    LET reqs == Or(Get(oin, <<"executor", "requests">>), Lst(<<>>)).val
    IN [i \in DOMAIN reqs |-> reqs[i].val["req_id"]]

\* the req_ids of the calls handed to the skills driver, in order
SentIds ==
    LET sk == SelectSeq(otr.calls, LAMBDA fr : fr.val["type"] = Str("skills"))
    IN IF sk = <<>> THEN <<>>
       ELSE [i \in DOMAIN sk[1].val["calls"].val |-> sk[1].val["calls"].val[i].val["req_id"]]

\* the execute route of the schedule
ExecuteRoute == Get(otr.s1, <<"runtime", "schedule", "routes">>).val[1]

\* C19: when the scheduler chooses execute, the requests sent to the skills
\* driver are the first max_inflight of the pending ones (all, when there
\* are fewer), in queue order, and the deferred ids of the execute route are
\* the req_ids of all the others: every pending request is either sent or
\* deferred.
C19_RunOrDeferred ==
    opc = "out" /\ otr.raised = ""
        /\ Get(otr.s1, <<"runtime", "schedule", "action">>) = Str("execute") =>
        LET inflight == Get(otr.s1, <<"runtime", "gates", "limits", "max_inflight">>).val
            n == IF Len(PendingIds) < inflight THEN Len(PendingIds) ELSE inflight
        IN /\ SentIds = SubSeq(PendingIds, 1, n)
           /\ ExecuteRoute.val["defer"].val = SubSeq(PendingIds, n + 1, Len(PendingIds))

---------------------------------------------------------------------------
(* properties of the drivers *)

\* the frames of fs without those whose idempotency_key an earlier one has
RECURSIVE Coalesced(_)
Coalesced(fs) ==
    IF fs = <<>> THEN <<>>
    ELSE LET front == SubSeq(fs, 1, Len(fs) - 1)
             last == fs[Len(fs)]
         IN IF GetOr(last, "idempotency_key", Null) \in KeysOf(front)
            THEN Coalesced(front) ELSE Append(Coalesced(front), last)

\* what the drivers hold after they were handed the frames fs
RECURSIVE DriversAfter(_)
DriversAfter(fs) ==
    IF fs = <<>> THEN [outbox |-> <<>>, index |-> <<>>, kv |-> <<>>, fts |-> <<>>]
    ELSE LET front == SubSeq(fs, 1, Len(fs) - 1)
             fr == fs[Len(fs)]
             d == DriversAfter(front)
             db == apply_index([kv |-> d.kv, fts |-> d.fts], fr)
         IN CASE fr.val["type"] = Str("transport") ->
                   [d EXCEPT !.outbox = emit(d.outbox, fr)]
              [] fr.val["type"] = Str("skills") -> [d EXCEPT !.index = execute(d.index, fr)]
              [] fr.val["type"] = Str("storage") -> [d EXCEPT !.kv = db.kv, !.fts = db.fts]
              [] OTHER -> d

\* C13: handing the drivers a frame whose idempotency_key they were handed
\* before has no external effect: the outbox, the skills' index and the
\* storage tables are what they would be had each key been handed once.
C13_DuplicatesCoalesced ==
    [outbox |-> _OUTBOX, index |-> _INDEX, kv |-> kv, fts |-> fts]
        = DriversAfter(Coalesced(handed))

---------------------------------------------------------------------------
(* properties of the chat route *)

\* the handlers inside run_tick_io
InTick == {h \in Handlers : cpc[h] \in {"tick1", "tick2"}}

\* C16: the ticks of two requests for the same thread_id never overlap, and
\* once both requests are handled the session's state is the one that
\* handling them one after the other, in either order, leaves: no tick's
\* update of the state is lost.
C16_TicksSerialized ==
    /\ Cardinality(InTick) <= 1
    /\ (\A h \in Handlers : cpc[h] = "done") =>
          /\ \E g, h \in Handlers :
                /\ g # h
                /\ Once(ChatAlone(SessionStart, ChatText(g)), LAMBDA s :
                        cheap[_STATE_CACHE] = ChatAlone(s, ChatText(h)))
          /\ session_state = cheap[_STATE_CACHE]

---------------------------------------------------------------------------
(* properties of the stages *)

\* the scheduler returned a schedule
Scheduled == fname = "b11f3_schedule_runtime" /\ fout # Absent /\ fout.val["status"] = Str("OK")

\* schedule.action
ScheduledAction == Get(fout, <<"runtime", "schedule", "action">>)

\* a gate of the input, with the default the scheduler reads it with
Gate(k, default) == ~Falsy(GetOr(Get(fin, <<"runtime", "gates">>), k, Bool(default)))

\* the input has executor requests; its dialog.final is an answer to give
HasExec == Get(fin, <<"executor", "requests">>).val # <<>>
HasAnswer == Get(fin, <<"dialog", "final", "move">>) \in {Str("answer"), Str("ack"), Str("refuse")}

\* C17 as stated: the action is one of the five; confirm whenever
\* require_confirm is set and a request or an answer is pending; sleep
\* whenever there are requests and execute is not allowed; execute only when
\* require_confirm is not set and execute is allowed.
C17_AsStated ==
    Scheduled =>
        /\ ScheduledAction \in {Str(a) : a \in {"execute", "answer", "confirm", "sleep", "noop"}}
        /\ Gate("require_confirm", FALSE) /\ (HasExec \/ HasAnswer) => ScheduledAction = Str("confirm")
        /\ HasExec /\ ~Gate("allow_execute", TRUE) => ScheduledAction = Str("sleep")
        /\ ScheduledAction = Str("execute") =>
              ~Gate("require_confirm", FALSE) /\ Gate("allow_execute", TRUE)

\* C17, amended: the same, with sleep for a blocked execute only when
\* require_confirm is not set (confirm comes first).
C17_ConfirmBeforeSleep ==
    Scheduled =>
        /\ ScheduledAction \in {Str(a) : a \in {"execute", "answer", "confirm", "sleep", "noop"}}
        /\ Gate("require_confirm", FALSE) /\ (HasExec \/ HasAnswer) => ScheduledAction = Str("confirm")
        /\ HasExec /\ ~Gate("allow_execute", TRUE) /\ ~Gate("require_confirm", FALSE) =>
              ScheduledAction = Str("sleep")
        /\ ScheduledAction = Str("execute") =>
              HasExec /\ ~Gate("require_confirm", FALSE) /\ Gate("allow_execute", TRUE)

\* the scheduler answered confirm to requests whose execution is blocked
C17_Witness ==
    /\ Scheduled /\ HasExec
    /\ Gate("require_confirm", FALSE) /\ ~Gate("allow_execute", TRUE)
    /\ ScheduledAction = Str("confirm")
    /\ Len(Get(fout, <<"runtime", "schedule", "routes">>).val) = 1

\* C20: the dispatcher returns requests only when dialog.final.move is
\* execute, and none for any other move and for a missing one.
C20_DispatchOnlyOnExecute ==
    fname = "b7f1_dispatch" /\ fout # Absent =>
        (Get(fout, <<"executor", "requests">>).val # <<>>
            => _cf(_get(fin, <<"dialog", "final", "move">>, Null)) = "execute")

---------------------------------------------------------------------------
(* properties of the safety filter and the initiative queue *)

\* the moves of a final turn
FinalMoves == {Str(m) : m \in {"ask", "confirm", "answer", "ack", "refuse", "execute"}}

\* C21: in every state reached through the safety filter and ticks,
\* dialog.final.move, when set, is one of ask, confirm, answer, ack, refuse,
\* execute, and whenever dialog.final.blocked is true the move is not
\* execute.
C21_FinalMoveValid ==
    LET final == Get(ist, <<"dialog", "final">>)
    IN /\ GetOr(final, "move", Absent) # Absent => final.val["move"] \in FinalMoves
       /\ GetOr(final, "blocked", Null) = Bool(TRUE) => GetOr(final, "move", Null) # Str("execute")

\* initiative.queue and executor.requests of a state, as sequences
QueueOf(s) == Or(Get(s, <<"initiative", "queue">>), Lst(<<>>)).val
RequestsOf(s) == Or(Get(s, <<"executor", "requests">>), Lst(<<>>)).val

\* the item was due in the tick
Due(rec, it) == it.val["when_ms"].val > 0 /\ it.val["when_ms"].val <= rec.now

\* the item of the queue fired in the tick: its request was appended to
\* executor.requests, or its text became the final turn of a dialog that had
\* none
FiredIn(rec, it) ==
    IF it.val["type"] = Str("run_skill")
    THEN LET Count(rs) == Cardinality({i \in DOMAIN rs : rs[i] = it.val["payload"].val["req"]})
         IN Count(RequestsOf(rec.after)) > Count(RequestsOf(rec.before))
    ELSE /\ Falsy(Or(Get(rec.before, <<"dialog", "final">>), EmptyMap))
         /\ Get(rec.after, <<"dialog", "final", "origin">>) = Str("initiative")
         /\ Get(rec.after, <<"dialog", "final", "text">>) = it.val["payload"].val["text"]

\* the items the tick started with
ItemsOf(rec) == {QueueOf(rec.before)[i] : i \in DOMAIN QueueOf(rec.before)}

\* C22: a non-once item that fired in a tick with clock time t does not fire
\* again in a later tick whose clock.now_ms is less than t + cooldown_ms.
C22_NoRefireBeforeCooldown ==
    \A i, j \in DOMAIN ilog :
        i < j =>
            \A it \in ItemsOf(ilog[i]) :
                /\ it.val["once"] = Bool(FALSE)
                /\ FiredIn(ilog[i], it)
                /\ ilog[j].now < ilog[i].now + it.val["cooldown_ms"].val
                => \A again \in {x \in ItemsOf(ilog[j]) : x.val["id"] = it.val["id"]} :
                      ~FiredIn(ilog[j], again)

\* a non-once run_skill item with a cooldown fired in the first tick, and a
\* second tick ran before the cooldown was over
C22_Witness ==
    /\ Len(ilog) = 2
    /\ \E it \in ItemsOf(ilog[1]) :
          /\ it.val["once"] = Bool(FALSE) /\ it.val["cooldown_ms"].val > 0
          /\ it.val["type"] = Str("run_skill")
          /\ FiredIn(ilog[1], it)
          /\ ilog[2].now < ilog[1].now + it.val["cooldown_ms"].val
          /\ \E x \in ItemsOf(ilog[2]) : x.val["id"] = it.val["id"]

\* C23: after a tick in which a non-once item fires (say or run_skill, for
\* any cooldown_ms), the item is still in initiative.queue, with when_ms equal
\* to clock.now_ms + cooldown_ms.
C23_FiredItemRescheduled ==
    \A i \in DOMAIN ilog :
        \A it \in ItemsOf(ilog[i]) :
            it.val["once"] = Bool(FALSE) /\ FiredIn(ilog[i], it) =>
                \E k \in DOMAIN QueueOf(ilog[i].after) :
                    QueueOf(ilog[i].after)[k]
                        = With(it, "when_ms", Num(ilog[i].now + it.val["cooldown_ms"].val))

\* what a tick that scheduled no item of its own did with the queue, given
\* the move a fired say gets
ConsumedInOrder(rec, MoveOf(_)) ==
    Get(rec.before, <<"observability", "telemetry", "summary">>) = Absent =>
    LET before == Or(Get(rec.before, <<"dialog", "final">>), EmptyMap)
        after == Or(Get(rec.after, <<"dialog", "final">>), EmptyMap)
        due == SelectSeq(QueueOf(rec.before), LAMBDA it : Due(rec, it))
        says == SelectSeq(due, LAMBDA it : it.val["type"] = Str("say"))
        skills == SelectSeq(due, LAMBDA it : it.val["type"] = Str("run_skill"))
    IN /\ IF ~Falsy(before) \/ says = <<>> THEN after = before
          ELSE after = Map(("move" :> MoveOf(says[1])) @@ ("text" :> says[1].val["payload"].val["text"])
                           @@ ("origin" :> Str("initiative")))
       /\ RequestsOf(rec.after)
             = RequestsOf(rec.before) \o [i \in DOMAIN skills |-> skills[i].val["payload"].val["req"]]
       /\ \A it \in ItemsOf(rec) :
             it.val["once"] = Bool(TRUE) /\ FiredIn(rec, it) =>
                 \A k \in DOMAIN QueueOf(rec.after) : QueueOf(rec.after)[k].val["id"] # it.val["id"]

\* C24 as stated: due items are consumed in queue order; the first due say
\* becomes the final turn {move: answer, text, origin: initiative} only if
\* dialog.final is not occupied, an existing final turn is kept, each due
\* run_skill appends its request, and a once item that fired leaves the queue.
C24_AsStated ==
    \A i \in DOMAIN ilog : ConsumedInOrder(ilog[i], LAMBDA it : Str("answer"))

\* C24, with the move of the turn: the payload's move when it has one,
\* answer otherwise.
C24_ConsumedInOrder ==
    \A i \in DOMAIN ilog :
        ConsumedInOrder(ilog[i], LAMBDA it : GetOr(it.val["payload"], "move", Str("answer")))

\* a tick with two due says and no final turn: the first one fired, the
\* second stayed
C24_Witness ==
    /\ Len(ilog) = 1
    /\ Len(QueueOf(ilog[1].before)) = 2
    /\ \A it \in ItemsOf(ilog[1]) : it.val["type"] = Str("say") /\ Due(ilog[1], it)
    /\ FiredIn(ilog[1], QueueOf(ilog[1].before)[1])
    /\ QueueOf(ilog[1].before)[1].val["once"] = Bool(TRUE)
    /\ QueueOf(ilog[1].after) = <<OtherSay>>

---------------------------------------------------------------------------
(* properties of the echo scenario *)

\* the tick handed a frame of calls to the skills driver
ExecutedSkill(rec) == \E i \in DOMAIN rec.calls : rec.calls[i].val["type"] = Str("skills")

\* C25: when dialog.final is set to an answer with text T after a preceding
\* tick has executed a skill request, running one tick adds exactly one
\* message to the transport outbox, and its text is T.
C25_AnswerEmittedOnce ==
    epc = "done" /\ ExecutedSkill(elog[1]) =>
        /\ Len(elog[2].added) = 1
        /\ GetOr(elog[2].added[1], "text", Null) = Str(etext)


---------------------------------------------------------------------------
(* properties of staging and activation *)

\* the request of record rec activated a version: the activator ran and
\* stamped the runtime with the request's clock
Activated(rec) ==
    Get(rec.after, <<"runtime", "version", "activated_at">>) = Iso(rec.now)
    /\ Get(rec.after, <<"policy", "apply_plan", "ops">>) # Lst(<<>>)

RECURSIVE DiffPaths(_)
\* the paths a structural diff reports as changed, nested changes followed
\* down to the changed leaf
DiffPaths(d) ==
    LET ch == GetOr(d, "changed", EmptyMap)
    IN UNION {IF "nested" \in Keys(ch.val[k])
              THEN {<<k>> \o q : q \in DiffPaths(ch.val[k].val["nested"])}
              ELSE {<<k>>} : k \in Keys(ch)}

\* the paths the ops of the apply plan set
PlanPaths(st) ==
    LET ops == Get(st, <<"policy", "apply_plan", "ops">>).val
    IN {_parts(ops[i].val["path"].val) : i \in DOMAIN ops}

\* the activated config is the staged one
ConfigIsStaged(rec) ==
    Get(rec.after, <<"runtime", "config">>)
        = Get(rec.after, <<"policy", "apply_stage", "doc", "config">>)

\* C26: a request that stages and activates a version leaves the staged
\* config in runtime.config, and the changed keys of runtime.diff are the
\* paths the ops of its apply plan set
C26_DiffMatchesPlan ==
    \A i \in DOMAIN plog :
        Activated(plog[i]) =>
            /\ ConfigIsStaged(plog[i])
            /\ DiffPaths(Get(plog[i].after, <<"runtime", "diff">>)) = PlanPaths(plog[i].after)

RECURSIVE Untimed(_)
\* a state without its clock readings
Untimed(n) ==
    CASE n.kind = "iso" -> Null
      [] n.kind = "map" -> Map([k \in DOMAIN n.val |-> Untimed(n.val[k])])
      [] n.kind = "list" -> Lst([i \in DOMAIN n.val |-> Untimed(n.val[i])])
      [] OTHER -> n

\* C27: the config that was active before an activation can be recovered
\* from the state the activation leaves: two activations that leave the same
\* state (clock readings aside), each replacing a config, replaced the same
\* config
C27_PriorConfigRecoverable ==
    \A i, j \in DOMAIN plog :
        /\ Activated(plog[i]) /\ Activated(plog[j])
        /\ Get(plog[i].before, <<"runtime", "config">>) # Absent
        /\ Get(plog[j].before, <<"runtime", "config">>) # Absent
        /\ Untimed(plog[i].after) = Untimed(plog[j].after)
        => Get(plog[i].before, <<"runtime", "config">>)
               = Get(plog[j].before, <<"runtime", "config">>)


\* the keys the diff of the activation reports as removed
Removed(rec) ==
    LET r == Get(rec.after, <<"runtime", "diff", "removed">>)
    IN IF r.kind = "list" THEN {r.val[i].val : i \in DOMAIN r.val} ELSE {}

\* C38: after a request that activates a version, runtime.config is the
\* config of the staged version, and holds none of the keys the diff reports
\* as removed
C38_ActivatedConfigExact ==
    \A i \in DOMAIN plog :
        Activated(plog[i]) =>
            /\ Get(plog[i].after, <<"runtime", "config">>)
                   = Get(plog[i].after, <<"policy", "apply_stage", "doc", "config">>)
            /\ Removed(plog[i]) \cap Keys(Get(plog[i].after, <<"runtime", "config">>)) = {}

---------------------------------------------------------------------------
(* properties of the learning update *)

\* the weights of a learning state are all in [0, 1.5]
WeightsBounded(learning) ==
    \A l \in Labels :
        learning.val["weights"].val[l].val >= 0
        /\ learning.val["weights"].val[l].val <= 1500000

\* the confidence of an update's summary is in [0.05, 0.99]
ConfidenceBounded(out) ==
    out.val["summary"].val["confidence"].val >= 500
    /\ out.val["summary"].val["confidence"].val <= 9900

\* C28: after every learning update each weight is in [0, 1.5] and the
\* confidence in [0.05, 0.99], and an update from an empty trace leaves the
\* weights as they were
C28_LearningBounds ==
    \A i \in DOMAIN llog :
        /\ WeightsBounded(llog[i].out)
        /\ ConfidenceBounded(llog[i].out)
        /\ llog[i].trace = <<>> =>
               llog[i].out.val["weights"] = llog[i].before.val["weights"]

\* C39: an update whose error history is the one the update before it had
\* leaves the weights as that update left them
C39_TraceReinforcedOnce ==
    \A i \in 1..(Len(llog) - 1) :
        llog[i + 1].history = llog[i].history
        => llog[i + 1].out.val["weights"] = llog[i].out.val["weights"]

---------------------------------------------------------------------------
(* properties of the apply optimizer *)

\* the ops of the list that the optimizer counts as puts, incs and links
IsPut(op) == GetOr(op, "op", Null) = Str("put") /\ GetOr(op, "key", Null).kind = "str"
IsInc(op) ==
    GetOr(op, "op", Null) = Str("inc") /\ GetOr(op, "key", Null).kind = "str"
    /\ GetOr(op, "delta", Null).kind = "int"
IsLink(op) ==
    GetOr(op, "op", Null) = Str("link") /\ GetOr(op, "key", Null).kind = "str"
    /\ GetOr(op, "value", Null) # Null

\* the seqs the ops carry do not decrease along the list
Monotonic(ops) ==
    \A i, j \in DOMAIN ops :
        i < j /\ _seq_of(ops[i]) # Null /\ _seq_of(ops[j]) # Null
        => _seq_of(ops[i]).val <= _seq_of(ops[j]).val

RECURSIVE SumDeltas(_, _)
\* the sum of the deltas of the incs on key k
SumDeltas(ops, k) ==
    IF ops = <<>> THEN 0
    ELSE (IF IsInc(Head(ops)) /\ Head(ops).val["key"] = k
          THEN Head(ops).val["delta"].val ELSE 0) + SumDeltas(Tail(ops), k)

\* the places of list s that satisfy P
Places(s, P(_)) == {i \in DOMAIN s : P(s[i])}

\* the output holds one put per key that is put, with the value of the
\* key's last put
PutsCollapsed(ops, out) ==
    \A i \in Places(ops, IsPut) :
        LET k == ops[i].val["key"]
            last == CHOOSE n \in Places(ops, IsPut) :
                        /\ ops[n].val["key"] = k
                        /\ \A q \in Places(ops, IsPut) : ops[q].val["key"] = k => q <= n
            found == {n \in Places(out, IsPut) : out[n].val["key"] = k}
        IN /\ Cardinality(found) = 1
           /\ \A n \in found : GetOr(out[n], "value", Null) = GetOr(ops[last], "value", Null)

\* the output holds one inc per key that is incremented, with the sum of
\* the key's deltas
IncsSummed(ops, out) ==
    \A i \in Places(ops, IsInc) :
        LET k == ops[i].val["key"]
            found == {n \in Places(out, IsInc) : out[n].val["key"] = k}
        IN /\ Cardinality(found) = 1
           /\ \A n \in found : out[n].val["delta"].val = SumDeltas(ops, k)

\* the output holds each distinct link once
LinksDeduped(ops, out) ==
    \A i \in Places(ops, IsLink) :
        Cardinality({n \in Places(out, IsLink) :
                       /\ out[n].val["key"] = ops[i].val["key"]
                       /\ out[n].val["value"] = ops[i].val["value"]}) = 1

\* C29: for a list of ops whose seqs are monotonic, the optimizer's output
\* holds for each key that is put exactly one put, with the value of the last
\* put of the key; for each key that is incremented exactly one inc, with the
\* sum of the key's deltas; and each distinct link exactly once
C29_Collapsed ==
    fname = "_opt_storage_ops" /\ fout # Absent /\ Monotonic(fin.val) =>
        /\ PutsCollapsed(fin.val, fout.val["out"].val)
        /\ IncsSummed(fin.val, fout.val["out"].val)
        /\ LinksDeduped(fin.val, fout.val["out"].val)

\* the rows of a store after a transaction that applies the ops: the rows
\* it had when an op raises
Stored(rows, ops) ==
    Once(_apply_ops(rows, ops), LAMBDA r : IF r.raised THEN rows ELSE r.rows)

\* the stores the ops are applied to: an empty one, and one with a row of k
Stores == {<<>>, Str("k") :> Str("Z")}

\* C40: applying the optimizer's output in its order leaves a store with the
\* rows that applying the ops it was given, in their order, leaves
C40_OptimizerPreservesStore ==
    fname = "_opt_storage_ops" /\ fout # Absent =>
        \A rows \in Stores :
            Stored(rows, fout.val["out"].val) = Stored(rows, fin.val)


---------------------------------------------------------------------------
(* properties of the gatekeeper's throttle *)

\* the latest metric of that name the gatekeeper was handed, 0 when none
MetricOf(st, name) ==
    LET ms == Get(st, <<"observability", "telemetry", "metrics">>).val
        hits == {i \in DOMAIN ms : ms[i].val["name"] = Str(name)}
    IN IF hits = {} THEN 0 ELSE ms[CHOOSE i \in hits : \A j \in hits : j <= i].val["value"].val

\* the soft limit of that name in the config, or its default
SoftLimit(st, name, default) ==
    _get(st, <<"runtime", "config", "guardrails", name>>, Num(default)).val

\* how far the latency and the index queue are over their soft limits
LatencyOver(st) ==
    MetricOf(st, "exec_avg_latency_ms") - SoftLimit(st, "latency_soft_limit_ms", 1500)
QueueOver(st) ==
    MetricOf(st, "index_queue_items") - SoftLimit(st, "index_queue_soft_max", 1000)

\* the gatekeeper has run on the stage's input
Gated == fname = "b11f2_gatekeeper" /\ fout # Absent

\* C30: throttle_ms is the latency's contribution, half its overage capped
\* at 1200 ms, plus the index queue's, a tenth of its overage capped at
\* 600 ms; the total is capped at 1500 ms, and it is 0 when neither soft limit
\* is exceeded
C30_ThrottleAdditive ==
    Gated =>
        LET by_latency == IF LatencyOver(fin) > 0
                          THEN Least(1200, LatencyOver(fin) \div 2) ELSE 0
            by_queue == IF QueueOver(fin) > 0 THEN Least(600, QueueOver(fin) \div 10) ELSE 0
            t == Get(fout, <<"runtime", "gates", "throttle_ms">>).val
        IN /\ t = Least(1500, by_latency + by_queue)
           /\ t <= 1500
           /\ LatencyOver(fin) <= 0 /\ QueueOver(fin) <= 0 => t = 0

\* both limits are exceeded, each contribution is below its cap, and the
\* throttle is their sum
C30_Witness ==
    /\ Gated
    /\ LatencyOver(fin) > 0 /\ LatencyOver(fin) \div 2 < 1200
    /\ QueueOver(fin) > 0 /\ QueueOver(fin) \div 10 < 600
    /\ Get(fout, <<"runtime", "gates", "throttle_ms">>).val
           = LatencyOver(fin) \div 2 + QueueOver(fin) \div 10

---------------------------------------------------------------------------
(* properties of a session's ticks *)

\* C31: clock.now_ms never decreases from one tick of a session to the
\* next: the value a tick injects is at least the value the tick before it
\* injected.
C31_ClockMonotonic ==
    \A i \in 1..(Len(slog) - 1) : slog[i + 1].now >= slog[i].now

\* the subsystems the tick handed a frame to
FrameTypes(rec) == {rec.calls[i].val["type"] : i \in DOMAIN rec.calls}

\* C33: a tick hands a skills frame to the drivers only when its
\* schedule.action is execute, and a transport frame only when it is answer
\* or confirm; what an earlier tick left in the state is not dispatched
\* again.
C33_FramesMatchSchedule ==
    \A i \in DOMAIN slog :
        /\ Str("skills") \in FrameTypes(slog[i]) => slog[i].action = Str("execute")
        /\ Str("transport") \in FrameTypes(slog[i]) =>
               slog[i].action \in {Str("answer"), Str("confirm")}

\* the units of work in the frames of a tick: the req_ids of the calls and
\* the messages
SentUnits(rec) ==
    UNION {LET fr == rec.calls[i]
           IN {GetOr(c, "req_id", Null) :
                 c \in {Or(GetOr(fr, "calls", Absent), Lst(<<>>)).val[k] :
                          k \in DOMAIN Or(GetOr(fr, "calls", Absent), Lst(<<>>)).val}}
              \cup {Or(GetOr(fr, "messages", Absent), Lst(<<>>)).val[k] :
                      k \in DOMAIN Or(GetOr(fr, "messages", Absent), Lst(<<>>)).val} :
           i \in DOMAIN rec.calls}

\* C34: when a tick's units all succeeded and it planned no retry, the next
\* tick, if nothing was put into the state before it, sends none of them
\* to a driver again.
C34_EffectsOnce ==
    \A i \in 1..(Len(slog) - 1) :
        slog[i].ok /\ slog[i].retry = <<>> /\ slog[i + 1].added = <<>> =>
            SentUnits(slog[i]) \cap SentUnits(slog[i + 1]) = {}

\* C35: after a tick in which no dispatched unit failed, driver.retry.jobs
\* is empty.
C35_NoRetryAfterSuccess ==
    \A i \in DOMAIN slog : slog[i].ok => slog[i].retry = <<>>

---------------------------------------------------------------------------
(* properties of the requests under repeated ticks *)

\* the request id is in executor.requests
Pending(id) == \E i \in DOMAIN _pending(xst) : _pending(xst)[i] = Str(id)

\* the session holds as many requests as it can: none arrives any more
Full == Len(_pending(xst)) = MaxQueue

\* C36: when ticks keep being run and no request arrives any more, every
\* pending request is eventually handed to the skills driver
C36_PendingEventuallySent ==
    ([]<>(xrun # NoTrace)) =>
        \A id \in {"r1", "r2"} : (Pending(id) /\ Full) ~> (Str(id) \in xsent)

---------------------------------------------------------------------------
(* properties of an initiative queue under repeated ticks *)

\* the queue holds a say item with the text whose when_ms has passed
DueSay(text) ==
    \E i \in DOMAIN QueueOf(nst) :
        LET it == QueueOf(nst)[i]
        IN /\ it.val["type"] = Str("say")
           /\ it.val["payload"].val["text"] = Str(text)
           /\ it.val["when_ms"].val > 0 /\ it.val["when_ms"].val <= nwall

\* C37: when ticks keep being run, every say item of the queue with a text,
\* once its when_ms has passed, eventually becomes the final turn
C37_DueSayEventuallyFires ==
    ([]<>(nrun # NoTrace)) =>
        \A text \in {"hello", "again"} : DueSay(text) ~> (Str(text) \in nfired)

---------------------------------------------------------------------------
(* properties of the push channel *)

\* s is the beginning of t
IsPrefix(s, t) == Len(s) <= Len(t) /\ SubSeq(t, 1, Len(s)) = s

\* C32: what the subscriber of a thread has been sent is the beginning of
\* what the ticks of that thread emitted, in the order they emitted it: it
\* is sent no message of another thread's tick.
C32_PushForwardsOwnThread ==
    \A t \in Threads : IsPrefix(wgot[t], wsaid[t])

====
